---- MODULE Spec2Model ----
(***************************************************************************)
(* Model of the flashcard generator front end: the Q/A tokenizer and       *)
(* deduplicator (lib/flashcards), the hand-written PDF encoder             *)
(* (FlashcardStudyPanel), the useFlashcardSets hook with localStorage, and *)
(* the feedback messages of the Home page.                                 *)
(*                                                                         *)
(* A JavaScript string is modelled as the sequence of its UTF-16 code      *)
(* units (naturals), so that character classes, case folding, decimal      *)
(* formatting and the UTF-8 encoding are computed, not assumed.            *)
(***************************************************************************)
EXTENDS Integers, Sequences, FiniteSets, TLC

VARIABLES
    pc,            \* position of the modelled call sequence
    srcLines,      \* the structured lines the raw text was written from
    srcSep,        \* the line separator the raw text was written with
    raw,           \* the text handed to parseFlashcards
    parsed,        \* the ParsedFlashcard[] returned by parseFlashcards
    parsedBefore,  \* the result for the text before the last line was appended
    flashcards,    \* the Flashcard[] returned by buildFlashcardsFromParsed
    rebuilt,       \* buildFlashcardsFromParsed applied to its own result
    lineList,      \* the line list handed to the pagination loop
    linesPerPage,  \* the number of lines that fit on a page
    pageList,      \* the pages the pagination loop produced
    studySet,      \* the FlashcardSet shown in the study panel
    hasTextEncoder,\* whether the runtime defines TextEncoder
    clock,         \* the second new Date() falls in
    blob,          \* what createFlashcardsPdfBlob returned: <<bytes>>, or <<>> for null
    downloadStarted,\* whether handleDownloadClick went on to start the download
    flashcardsAgain,\* the Flashcard[] of a second run over the same raw text
    blobAgain,     \* what a second call of createFlashcardsPdfBlob returned
    mergeResult,   \* what mergeFlashcards returned: <<[cards, addedCount]>>, <<>> before
    textValue,     \* a string handed to sanitizeTextValue and the wrap functions
    textPrefix,    \* the prefix handed to wrapWithPrefix
    sanitizedValue,\* what sanitizeTextValue returned: <<string>>, <<>> before
    lineWidth,     \* the maxChars handed to segmentSanitizedText
    wrappedLines,  \* what wrapLongLine or segmentSanitizedText returned
    prefixedLines, \* what wrapWithPrefix returned
    shownLines,    \* the text-show operators built from prefixedLines
    sets,          \* useFlashcardSets: the sets state
    selectedSetId, \* useFlashcardSets: <<id>>, or <<>> for null
    currentCardIndex,   \* useFlashcardSets: the index state
    initialLoadComplete,\* useFlashcardSets: the load flag
    effectDeps,    \* the dependency values the effects last ran with: <<deps>>, <<>> before mount
    storage,       \* localStorage: the values under STORAGE_KEY and LEGACY_STORAGE_KEY
    storageOps,    \* the localStorage calls the last step made, in order
    file,          \* FlashcardUploader: <<file>>, or <<>> for null
    loading,       \* Home: the loading state
    request,       \* Home: <<file>> while handleGenerate awaits the response, else <<>>
    error,         \* Home: the error message
    statusMessage  \* Home: the status message

tokenVars == <<srcLines, srcSep, raw, parsedBefore>>
dedupeVars == <<flashcards, rebuilt>>
pageVars == <<lineList, linesPerPage, pageList>>
pdfVars == <<studySet, hasTextEncoder, clock, blob, downloadStarted>>
repeatVars == <<flashcardsAgain, blobAgain>>
mergeVars == <<mergeResult>>
textVars == <<textValue, textPrefix, sanitizedValue, lineWidth, wrappedLines, prefixedLines,
             shownLines>>

hookVars == <<sets, selectedSetId, currentCardIndex, initialLoadComplete, effectDeps>>
storageVars == <<storage, storageOps>>
homeVars == <<file, loading, request, error, statusMessage>>
uiVars == <<hookVars, storageVars, homeVars>>

vars == <<pc, tokenVars, parsed, dedupeVars, pageVars, pdfVars, repeatVars, mergeVars, textVars,
          uiVars>>

(***************************************************************************)
(* Bounds of the model.                                                    *)
(***************************************************************************)
MaxLines == 4
MaxRecords == 3
MaxContentLines == 12
MaxPerPage == 5
MaxCards == 10
MaxClock == 1
MaxValueLen == 4
MaxWords == 2
MaxExisting == 2
MaxIncoming == 2
MaxTextLen == 6
MaxWidth == 4

(***************************************************************************)
(* Strings: code units and the character classes of the regular            *)
(* expressions and of String.prototype.trim.                               *)
(***************************************************************************)
LF == 10
CR == 13
SPACE == 32
PERIOD == 46
COLON == 58

Min(S) == CHOOSE x \in S : \A y \in S : x <= y
Max(S) == CHOOSE x \in S : \A y \in S : x >= y

\* LineTerminator of ECMAScript: what "." does not match and what "^" (flag m)
\* looks behind for.
IsLineTerminator(c) == c \in {10, 13, 8232, 8233}

\* \s of ECMAScript (WhiteSpace and LineTerminator), also what trim() removes.
IsSpace(c) ==
    \/ c \in {9, 10, 11, 12, 13, 32, 160, 5760, 8232, 8233, 8239, 8287, 12288, 65279}
    \/ (c >= 8192 /\ c <= 8202)

\* \d
IsDigit(c) == c >= 48 /\ c <= 57

\* toLowerCase on one code unit (Basic Latin and Latin-1 letters).
LowerChar(c) ==
    IF (c >= 65 /\ c <= 90) \/ (c >= 192 /\ c <= 222 /\ c # 215) THEN c + 32 ELSE c

ToLowerCase(s) == [i \in 1..Len(s) |-> LowerChar(s[i])]

\* String.prototype.trim
Trim(s) ==
    LET keep == {i \in 1..Len(s) : ~IsSpace(s[i])}
    IN  IF keep = {} THEN <<>> ELSE SubSeq(s, Min(keep), Max(keep))

\* Array.prototype.join
RECURSIVE JoinRange(_, _, _, _)
JoinRange(parts, sep, lo, hi) ==
    IF lo > hi THEN <<>>
    ELSE IF lo = hi THEN parts[lo]
    ELSE LET mid == (lo + hi) \div 2
         IN  JoinRange(parts, sep, lo, mid) \o sep \o JoinRange(parts, sep, mid + 1, hi)

Join(parts, sep) == JoinRange(parts, sep, 1, Len(parts))

\* String.prototype.split on a one-character separator: "".split(sep) is [""].
RECURSIVE SplitFrom(_, _, _)
SplitFrom(s, c, i) ==
    LET hits == {j \in i..Len(s) : s[j] = c}
    IN  IF hits = {} THEN <<SubSeq(s, i, Len(s))>>
        ELSE <<SubSeq(s, i, Min(hits) - 1)>> \o SplitFrom(s, c, Min(hits) + 1)

Split(s, c) == SplitFrom(s, c, 1)

\* The first index >= i of s that is not whitespace (Len(s) + 1 when none).
SkipSpaces(s, i) == Min({j \in i..(Len(s) + 1) : j = Len(s) + 1 \/ ~IsSpace(s[j])})

\* The first index >= i of s that is not a digit (Len(s) + 1 when none).
SkipDigits(s, i) == Min({j \in i..(Len(s) + 1) : j = Len(s) + 1 \/ ~IsDigit(s[j])})

(***************************************************************************)
(* parseFlashcards                                                         *)
(***************************************************************************)

\* raw.replace(/\r\n?/g, "\n")
RECURSIVE NormalizeFrom(_, _)
NormalizeFrom(s, i) ==
    IF i > Len(s) THEN <<>>
    ELSE IF s[i] = CR
         THEN <<LF>> \o NormalizeFrom(s, IF i < Len(s) /\ s[i + 1] = LF THEN i + 2 ELSE i + 1)
         ELSE <<s[i]>> \o NormalizeFrom(s, i + 1)

NormalizeNewlines(s) == NormalizeFrom(s, 1)

\* "^" under the m flag: the start of the text or just behind a line terminator.
AtLineStart(s, i) == i = 1 \/ IsLineTerminator(s[i - 1])

\* /^\s*\d+\.\s*/ tried at index i: the index just after the match, 0 when it
\* does not match.  \s, \d and "." are disjoint, so the greedy run is the only
\* candidate of each quantifier.
OrdinalEnd(s, i) ==
    LET a == SkipSpaces(s, i)
        b == SkipDigits(s, a)
    IN  IF AtLineStart(s, i) /\ b > a /\ b <= Len(s) /\ s[b] = PERIOD
        THEN SkipSpaces(s, b + 1)
        ELSE 0

\* .replace(/^\s*\d+\.\s*/gm, ""): the scan resumes where a match ended, and
\* looks behind in the text as it was.
RECURSIVE StripFrom(_, _)
StripFrom(s, i) ==
    IF i > Len(s) THEN <<>>
    ELSE IF OrdinalEnd(s, i) > 0 THEN StripFrom(s, OrdinalEnd(s, i))
    ELSE <<s[i]>> \o StripFrom(s, i + 1)

\* The replacement without the flags g and m: one match, at the start of the text.
StripOrdinalMarkerAtTextStart(s) ==
    IF s # <<>> /\ OrdinalEnd(s, 1) > 0 THEN SubSeq(s, OrdinalEnd(s, 1), Len(s)) ELSE s

StripOrdinalMarkers(s) == StripFrom(s, 1)

\* The tail \s*:\s*(.+)$ or \s*:\s*(.*)$ of the two line patterns, matched
\* against what follows the keyword: <<capture>> on a match, <<>> otherwise.
\* With needText the capture is (.+): when the greedy \s* leaves nothing, it
\* gives its last character back.
MarkerTail(rest, needText) ==
    LET a == SkipSpaces(rest, 1)
        b == SkipSpaces(rest, a + 1)
        cap == SubSeq(rest, b, Len(rest))
    IN  IF a > Len(rest) \/ rest[a] # COLON THEN <<>>
        ELSE IF \E k \in 1..Len(cap) : IsLineTerminator(cap[k]) THEN <<>>
        ELSE IF Len(cap) > 0 \/ ~needText THEN <<cap>>
        ELSE IF b > a + 1 /\ ~IsLineTerminator(rest[b - 1]) THEN <<<<rest[b - 1]>>>>
        ELSE <<>>

\* ^(?:short|long) under the i flag, then the tail: the alternatives in order.
MatchMarker(line, short, long, needText) ==
    LET low == ToLowerCase(line)
        try(word) ==
            IF Len(line) >= Len(word) /\ SubSeq(low, 1, Len(word)) = word
            THEN MarkerTail(SubSeq(line, Len(word) + 1, Len(line)), needText)
            ELSE <<>>
    IN  IF try(short) # <<>> THEN try(short) ELSE try(long)

\* "q", "question", "a", "answer"
KeywordQ == <<113>>
KeywordQuestion == <<113,117,101,115,116,105,111,110>>
KeywordA == <<97>>
KeywordAnswer == <<97,110,115,119,101,114>>

\* trimmed.match(/^(?:Q|Question)\s*:\s*(.+)$/i)
QuestionMatch(trimmed) == MatchMarker(trimmed, KeywordQ, KeywordQuestion, TRUE)

\* trimmed.match(/^(?:A|Answer)\s*:\s*(.*)$/i)
AnswerMatch(trimmed) == MatchMarker(trimmed, KeywordA, KeywordAnswer, FALSE)

\* The loop state: currentQuestion is <<>> for null and <<text>> otherwise.
ParserStart ==
    [currentQuestion |-> <<>>, currentAnswer |-> <<>>, answerStarted |-> FALSE, cards |-> <<>>]

\* commitCard with the answer lines joined by a space instead of a line break.
CommitCardJoinedBySpace(st) ==
    IF st.currentQuestion = <<>> \/ st.currentQuestion[1] = <<>> \/ Len(st.currentAnswer) = 0
    THEN st.cards
    ELSE LET question == Trim(st.currentQuestion[1])
             answer == Trim(Join(st.currentAnswer, <<SPACE>>))
         IN  IF question # <<>> /\ answer # <<>>
             THEN Append(st.cards, [question |-> question, answer |-> answer])
             ELSE st.cards

\* commitCard without its two tests of the answer.
CommitCardWithoutAnswerTests(st) ==
    IF st.currentQuestion = <<>> \/ st.currentQuestion[1] = <<>>
    THEN st.cards
    ELSE LET question == Trim(st.currentQuestion[1])
             answer == Trim(Join(st.currentAnswer, <<LF>>))
         IN  IF question # <<>>
             THEN Append(st.cards, [question |-> question, answer |-> answer])
             ELSE st.cards

\* commitCard with the joined answer used as it is, not trimmed.
CommitCardAnswerNotTrimmed(st) ==
    IF st.currentQuestion = <<>> \/ st.currentQuestion[1] = <<>> \/ Len(st.currentAnswer) = 0
    THEN st.cards
    ELSE LET question == Trim(st.currentQuestion[1])
             answer == Join(st.currentAnswer, <<LF>>)
         IN  IF question # <<>> /\ answer # <<>>
             THEN Append(st.cards, [question |-> question, answer |-> answer])
             ELSE st.cards

\* commitCard: a falsy question is null or the empty string.
CommitCard(st) ==
    IF st.currentQuestion = <<>> \/ st.currentQuestion[1] = <<>> \/ Len(st.currentAnswer) = 0
    THEN st.cards
    ELSE LET question == Trim(st.currentQuestion[1])
             answer == Trim(Join(st.currentAnswer, <<LF>>))
         IN  IF question # <<>> /\ answer # <<>>
             THEN Append(st.cards, [question |-> question, answer |-> answer])
             ELSE st.cards

\* The loop body with the commitCard() call of the question branch left out.
ProcessLineWithoutCommit(st, line) ==
    LET trimmed == Trim(line)
        questionMatch == QuestionMatch(trimmed)
        answerMatch == AnswerMatch(trimmed)
    IN  IF questionMatch # <<>>
        THEN [currentQuestion |-> <<questionMatch[1]>>, currentAnswer |-> <<>>,
              answerStarted |-> FALSE, cards |-> st.cards]
        ELSE IF answerMatch # <<>> /\ st.currentQuestion # <<>> /\ st.currentQuestion[1] # <<>>
        THEN [st EXCEPT !.currentAnswer = <<answerMatch[1]>>, !.answerStarted = TRUE]
        ELSE IF st.answerStarted
        THEN [st EXCEPT !.currentAnswer = Append(st.currentAnswer, trimmed)]
        ELSE st

\* The loop body with an answer line added to the buffer it finds.
ProcessLineAnswerAppends(st, line) ==
    LET trimmed == Trim(line)
        questionMatch == QuestionMatch(trimmed)
        answerMatch == AnswerMatch(trimmed)
    IN  IF questionMatch # <<>>
        THEN [currentQuestion |-> <<questionMatch[1]>>, currentAnswer |-> <<>>,
              answerStarted |-> FALSE, cards |-> CommitCard(st)]
        ELSE IF answerMatch # <<>> /\ st.currentQuestion # <<>> /\ st.currentQuestion[1] # <<>>
        THEN [st EXCEPT !.currentAnswer = Append(st.currentAnswer, answerMatch[1]),
                        !.answerStarted = TRUE]
        ELSE IF st.answerStarted
        THEN [st EXCEPT !.currentAnswer = Append(st.currentAnswer, trimmed)]
        ELSE st

\* One round of the loop over the lines.
ProcessLine(st, line) ==
    LET trimmed == Trim(line)
        questionMatch == QuestionMatch(trimmed)
        answerMatch == AnswerMatch(trimmed)
    IN  IF questionMatch # <<>>
        THEN [currentQuestion |-> <<questionMatch[1]>>, currentAnswer |-> <<>>,
              answerStarted |-> FALSE, cards |-> CommitCard(st)]
        ELSE IF answerMatch # <<>> /\ st.currentQuestion # <<>> /\ st.currentQuestion[1] # <<>>
        THEN [st EXCEPT !.currentAnswer = <<answerMatch[1]>>, !.answerStarted = TRUE]
        ELSE IF st.answerStarted
        THEN [st EXCEPT !.currentAnswer = Append(st.currentAnswer, trimmed)]
        ELSE st

RECURSIVE ProcessLines(_, _)
ProcessLines(st, lines) ==
    IF lines = <<>> THEN st ELSE ProcessLines(ProcessLine(st, Head(lines)), Tail(lines))

\* parseFlashcards with the commitCard() call after the loop left out.
parseFlashcardsWithoutFinalCommit(text) ==
    IF text = <<>> THEN <<>>
    ELSE LET sanitized == Trim(StripOrdinalMarkers(NormalizeNewlines(text)))
             lines == Split(sanitized, LF)
         IN  ProcessLines(ParserStart, lines).cards

parseFlashcards(text) ==
    IF text = <<>> THEN <<>>
    ELSE LET sanitized == Trim(StripOrdinalMarkers(NormalizeNewlines(text)))
             lines == Split(sanitized, LF)
         IN  CommitCard(ProcessLines(ParserStart, lines))

(***************************************************************************)
(* canonicalKey and buildFlashcardsFromParsed.  createId() is random: the  *)
(* identifiers it returns during one call are the sequence ids.            *)
(***************************************************************************)
KeySeparator == <<58,58>>            \* "::"

\* canonicalKey with the two toLowerCase() calls left out.
canonicalKeyCaseSensitive(question, answer) ==
    Trim(question) \o KeySeparator \o Trim(answer)

canonicalKey(question, answer) ==
    ToLowerCase(Trim(question)) \o KeySeparator \o ToLowerCase(Trim(answer))

BuildStart == [seen |-> {}, cards |-> <<>>]

\* The loop body with the key taken from the fields as they came.
BuildStepKeyOfRawFields(acc, item, ids) ==
    LET question == Trim(item.question)
        answer == Trim(item.answer)
        key == item.question \o KeySeparator \o item.answer
    IN  IF question = <<>> \/ answer = <<>> THEN acc
        ELSE IF key \in acc.seen THEN acc
        ELSE [seen |-> acc.seen \cup {key},
              cards |-> Append(acc.cards,
                               [id |-> ids[Len(acc.cards) + 1], question |-> question,
                                answer |-> answer, learned |-> FALSE])]

\* The loop body with the set of seen cards keyed by the new card's identifier.
BuildStepSeenById(acc, item, ids) ==
    LET question == Trim(item.question)
        answer == Trim(item.answer)
        key == ids[Len(acc.cards) + 1]
    IN  IF question = <<>> \/ answer = <<>> THEN acc
        ELSE IF key \in acc.seen THEN acc
        ELSE [seen |-> acc.seen \cup {key},
              cards |-> Append(acc.cards,
                               [id |-> ids[Len(acc.cards) + 1], question |-> question,
                                answer |-> answer, learned |-> FALSE])]

\* One round of the loop over the parsed items.
BuildStep(acc, item, ids) ==
    LET question == Trim(item.question)
        answer == Trim(item.answer)
        key == canonicalKey(question, answer)
    IN  IF question = <<>> \/ answer = <<>> THEN acc
        ELSE IF key \in acc.seen THEN acc
        ELSE [seen |-> acc.seen \cup {key},
              cards |-> Append(acc.cards,
                               [id |-> ids[Len(acc.cards) + 1], question |-> question,
                                answer |-> answer, learned |-> FALSE])]

RECURSIVE BuildLoop(_, _, _)
BuildLoop(acc, items, ids) ==
    IF items = <<>> THEN acc
    ELSE BuildLoop(BuildStep(acc, Head(items), ids), Tail(items), ids)

buildFlashcardsFromParsed(items, ids) == BuildLoop(BuildStart, items, ids).cards

(***************************************************************************)
(* mergeFlashcards of the single-deck Home page.                           *)
(***************************************************************************)
\* const seen = new Set(existing.map(...)); const additions = [];
MergeStart(existing) ==
    [seen |-> {canonicalKey(existing[i].question, existing[i].answer) : i \in 1..Len(existing)},
     additions |-> <<>>]

\* The loop body without seen.add(key).
MergeStepWithoutSeenAdd(acc, card, ids) ==
    LET key == canonicalKey(card.question, card.answer)
    IN  IF key \in acc.seen THEN acc
        ELSE [seen |-> acc.seen,
              additions |-> Append(acc.additions,
                                   [id |-> ids[Len(acc.additions) + 1],
                                    question |-> Trim(card.question),
                                    answer |-> Trim(card.answer), learned |-> FALSE])]

\* One round of the loop over the incoming cards.
MergeStep(acc, card, ids) ==
    LET key == canonicalKey(card.question, card.answer)
    IN  IF key \in acc.seen THEN acc
        ELSE [seen |-> acc.seen \cup {key},
              additions |-> Append(acc.additions,
                                   [id |-> ids[Len(acc.additions) + 1],
                                    question |-> Trim(card.question),
                                    answer |-> Trim(card.answer), learned |-> FALSE])]

RECURSIVE MergeLoop(_, _, _)
MergeLoop(acc, incoming, ids) ==
    IF incoming = <<>> THEN acc
    ELSE MergeLoop(MergeStep(acc, Head(incoming), ids), Tail(incoming), ids)

mergeFlashcards(existing, incoming, ids) ==
    IF Len(incoming) = 0 THEN [cards |-> existing, addedCount |-> 0]
    ELSE LET additions == MergeLoop(MergeStart(existing), incoming, ids).additions
         IN  [cards |-> existing \o additions, addedCount |-> Len(additions)]

(***************************************************************************)
(* The PDF encoder of FlashcardStudyPanel.  Lengths that are not whole     *)
(* numbers are kept in hundredths of a point.                              *)
(***************************************************************************)
PDF_PAGE_WIDTH_X100 == 59528
PDF_PAGE_HEIGHT_X100 == 84189
PDF_MARGIN_X == 56
PDF_MARGIN_TOP == 72
PDF_MARGIN_BOTTOM == 72
PDF_FONT_SIZE == 12
PDF_LINE_HEIGHT == 18
PDF_MAX_LINE_CHARS == 90

QUESTION_MARK == 63
BACKSLASH == 92
LEFT_PAREN == 40
RIGHT_PAREN == 41
DIGIT_ZERO == 48

\* String(n) for a natural number.
RECURSIVE Decimal(_)
Decimal(n) ==
    IF n < 10 THEN <<DIGIT_ZERO + n>> ELSE Append(Decimal(n \div 10), DIGIT_ZERO + (n % 10))

\* String(x) for a number x >= 0 given in hundredths: no trailing zeros.
DecimalX100(n) ==
    LET whole == Decimal(n \div 100)
        frac == n % 100
    IN  IF frac = 0 THEN whole
        ELSE IF frac % 10 = 0 THEN whole \o <<PERIOD, DIGIT_ZERO + (frac \div 10)>>
        ELSE whole \o <<PERIOD, DIGIT_ZERO + (frac \div 10), DIGIT_ZERO + (frac % 10)>>

\* The string as it is, with no filler.
PadStartWithoutFiller(s, width, c) == s

\* String.prototype.padStart with a one-character filler.
PadStart(s, width, c) ==
    IF Len(s) >= width THEN s ELSE [i \in 1..(width - Len(s)) |-> c] \o s

\* Array.prototype.flat of a sequence of sequences.
RECURSIVE FlattenRange(_, _, _)
FlattenRange(parts, lo, hi) ==
    IF lo > hi THEN <<>>
    ELSE IF lo = hi THEN parts[lo]
    ELSE LET mid == (lo + hi) \div 2
         IN  FlattenRange(parts, lo, mid) \o FlattenRange(parts, mid + 1, hi)

Flatten(parts) == FlattenRange(parts, 1, Len(parts))

\* TextEncoder.encode of one code unit (no surrogates in the model's texts).
Utf8OfUnit(c) ==
    IF c < 128 THEN <<c>>
    ELSE IF c < 2048 THEN <<192 + (c \div 64), 128 + (c % 64)>>
    ELSE <<224 + (c \div 4096), 128 + ((c \div 64) % 64), 128 + (c % 64)>>

\* TextEncoder.encode: the encodings of the code units, in order.
RECURSIVE Utf8Range(_, _, _)
Utf8Range(s, lo, hi) ==
    IF lo > hi THEN <<>>
    ELSE IF lo = hi THEN Utf8OfUnit(s[lo])
    ELSE LET mid == (lo + hi) \div 2
         IN  Utf8Range(s, lo, mid) \o Utf8Range(s, mid + 1, hi)

Utf8Encode(s) == Utf8Range(s, 1, Len(s))

\* value.replace(/\s+/g, " ") on s[lo..hi]: a character that is not
\* whitespace stays, the first character of a whitespace run becomes a space
\* and the rest of the run goes.  The range is halved to keep the evaluation
\* shallow on long strings.
RECURSIVE CollapseRange(_, _, _)
CollapseRange(s, lo, hi) ==
    IF lo > hi THEN <<>>
    ELSE IF lo = hi
    THEN IF ~IsSpace(s[lo]) THEN <<s[lo]>>
         ELSE IF lo > 1 /\ IsSpace(s[lo - 1]) THEN <<>>
         ELSE <<SPACE>>
    ELSE LET mid == (lo + hi) \div 2
         IN  CollapseRange(s, lo, mid) \o CollapseRange(s, mid + 1, hi)

\* value.replace(/\s+/g, " "), from the start of a run or of a word on.
CollapseFrom(s, i) == CollapseRange(s, i, Len(s))

\* The map callback with the upper limit at the end of Latin-1.
SanitizeCharKeepingLatin1(code) == IF code >= 32 /\ code <= 255 THEN code ELSE QUESTION_MARK

\* The map callback of sanitizeTextValue.
SanitizeChar(code) == IF code >= 32 /\ code <= 126 THEN code ELSE QUESTION_MARK

sanitizeTextValue(value) ==
    LET collapsed == CollapseFrom(value, 1)
    IN  Trim([i \in 1..Len(collapsed) |-> SanitizeChar(collapsed[i])])

breakWordIntoSegments(word, maxChars) ==
    IF Len(word) <= maxChars THEN <<word>>
    ELSE [k \in 1..((Len(word) + maxChars - 1) \div maxChars) |->
            SubSeq(word, (k - 1) * maxChars + 1,
                   IF k * maxChars < Len(word) THEN k * maxChars ELSE Len(word))]

\* A word that starts a line: lines and current after it.
PlaceWord(lines, word, maxChars) ==
    IF Len(word) <= maxChars THEN [lines |-> lines, current |-> word]
    ELSE LET segments == breakWordIntoSegments(word, maxChars)
             lastSegment == segments[Len(segments)]
             rest == lines \o SubSeq(segments, 1, Len(segments) - 1)
         IN  IF Len(lastSegment) = maxChars
             THEN [lines |-> Append(rest, lastSegment), current |-> <<>>]
             ELSE [lines |-> rest, current |-> lastSegment]

\* The loop body with a word added to the line only if a character is left over.
SegmentStepStrictFit(st, word, maxChars) ==
    IF word = <<>> THEN st
    ELSE IF Len(st.current) = 0 THEN PlaceWord(st.lines, word, maxChars)
    ELSE IF Len(st.current) + 1 + Len(word) < maxChars
    THEN [st EXCEPT !.current = st.current \o <<SPACE>> \o word]
    ELSE PlaceWord(Append(st.lines, st.current), word, maxChars)

\* One round of the loop over the words.
SegmentStep(st, word, maxChars) ==
    IF word = <<>> THEN st
    ELSE IF Len(st.current) = 0 THEN PlaceWord(st.lines, word, maxChars)
    ELSE IF Len(st.current) + 1 + Len(word) <= maxChars
    THEN [st EXCEPT !.current = st.current \o <<SPACE>> \o word]
    ELSE PlaceWord(Append(st.lines, st.current), word, maxChars)

RECURSIVE SegmentLoop(_, _, _)
SegmentLoop(st, words, maxChars) ==
    IF words = <<>> THEN st
    ELSE SegmentLoop(SegmentStep(st, Head(words), maxChars), Tail(words), maxChars)

segmentSanitizedText(sanitized, maxChars) ==
    IF sanitized = <<>> THEN <<>>
    ELSE LET st == SegmentLoop([lines |-> <<>>, current |-> <<>>], Split(sanitized, SPACE),
                               maxChars)
         IN  IF st.current # <<>> THEN Append(st.lines, st.current) ELSE st.lines

wrapLongLine(value) ==
    LET sanitized == sanitizeTextValue(value)
    IN  IF sanitized = <<>> THEN << <<>> >>
        ELSE segmentSanitizedText(sanitized, PDF_MAX_LINE_CHARS)

\* String.prototype.trimEnd
TrimEnd(s) ==
    LET keep == {i \in 1..Len(s) : ~IsSpace(s[i])}
    IN  IF keep = {} THEN <<>> ELSE SubSeq(s, 1, Max(keep))

\* wrapWithPrefix with the whole width given to the text beside the prefix.
wrapWithPrefixFullWidth(value, prefix) ==
    LET sanitized == sanitizeTextValue(value)
        segments == segmentSanitizedText(sanitized, PDF_MAX_LINE_CHARS)
        indent == [i \in 1..Len(prefix) |-> SPACE]
    IN  IF sanitized = <<>> THEN <<TrimEnd(prefix)>>
        ELSE [i \in 1..Len(segments) |->
                IF i = 1 THEN prefix \o segments[i] ELSE indent \o segments[i]]

wrapWithPrefix(value, prefix) ==
    LET sanitized == sanitizeTextValue(value)
        available == IF PDF_MAX_LINE_CHARS - Len(prefix) > 1
                     THEN PDF_MAX_LINE_CHARS - Len(prefix) ELSE 1
        segments == segmentSanitizedText(sanitized, available)
        indent == [i \in 1..Len(prefix) |-> SPACE]
    IN  IF sanitized = <<>> THEN <<TrimEnd(prefix)>>
        ELSE [i \in 1..Len(segments) |->
                IF i = 1 THEN prefix \o segments[i] ELSE indent \o segments[i]]

\* value.replace(/c/g, "\\c") for one character c, on s[lo..hi]; the range is
\* halved to keep the evaluation shallow on long strings.
RECURSIVE EscapeRange(_, _, _, _)
EscapeRange(s, c, lo, hi) ==
    IF lo > hi THEN <<>>
    ELSE IF lo = hi THEN (IF s[lo] = c THEN <<BACKSLASH, c>> ELSE <<s[lo]>>)
    ELSE LET mid == (lo + hi) \div 2
         IN  EscapeRange(s, c, lo, mid) \o EscapeRange(s, c, mid + 1, hi)

EscapeChar(s, c) == EscapeRange(s, c, 1, Len(s))

\* escapePdfText with the parentheses escaped before the backslashes.
escapePdfTextParenthesesFirst(value) ==
    EscapeChar(EscapeChar(EscapeChar(value, LEFT_PAREN), RIGHT_PAREN), BACKSLASH)

escapePdfText(value) ==
    EscapeChar(EscapeChar(EscapeChar(value, BACKSLASH), LEFT_PAREN), RIGHT_PAREN)

\* The literal texts of createFlashcardsPdfBlob.
TextImportedSet ==    \* 'Imported Set'
    <<73,109,112,111,114,116,101,100,32,83,101,116>>
TextFlashcardsFor ==    \* 'Flashcards for '
    <<70,108,97,115,104,99,97,114,100,115,32,102,111,114,32>>
TextGenerated ==    \* 'Generated '
    <<71,101,110,101,114,97,116,101,100,32>>
TextCard ==    \* 'Card '
    <<67,97,114,100,32>>
PrefixQ ==    \* 'Q: '
    <<81,58,32>>
PrefixA ==    \* 'A: '
    <<65,58,32>>
TextFlashcardExport ==    \* 'Flashcard export'
    <<70,108,97,115,104,99,97,114,100,32,101,120,112,111,114,116>>
FontContent ==    \* '<< /Type /Font /Subtype /Type1 /BaseFont /Helvetica >>\n'
    <<60,60,32,47,84,121,112,101,32,47,70,111,110,116,32,47,83,117,98,116,121,112,101,32,47,84,121,112,101,49,32,47,66,97,115,101,70,111,110,116,32,47,72,101,108,118,101,116,105,99,97,32,62,62,10>>
CatalogContent ==    \* '<< /Type /Catalog /Pages 2 0 R >>\n'
    <<60,60,32,47,84,121,112,101,32,47,67,97,116,97,108,111,103,32,47,80,97,103,101,115,32,50,32,48,32,82,32,62,62,10>>
PdfHeader ==    \* '%PDF-1.4\n'
    <<37,80,68,70,45,49,46,52,10>>
OpBT ==    \* 'BT'
    <<66,84>>
OpFontName ==    \* '/F1 '
    <<47,70,49,32>>
OpTf ==    \* ' Tf'
    <<32,84,102>>
OpTL ==    \* ' TL'
    <<32,84,76>>
OpMatrix ==    \* '1 0 0 1 '
    <<49,32,48,32,48,32,49,32>>
OpTm ==    \* ' Tm'
    <<32,84,109>>
OpTj ==    \* ') Tj'
    <<41,32,84,106>>
OpNextLine ==    \* 'T*'
    <<84,42>>
OpET ==    \* 'ET'
    <<69,84>>
StreamDictOpen ==    \* '<< /Length '
    <<60,60,32,47,76,101,110,103,116,104,32>>
StreamOpen ==    \* ' >>\nstream\n'
    <<32,62,62,10,115,116,114,101,97,109,10>>
StreamClose ==    \* 'endstream\n'
    <<101,110,100,115,116,114,101,97,109,10>>
PageDictOpen ==    \* '<< /Type /Page /Parent 2 0 R /MediaBox [0 0 '
    <<60,60,32,47,84,121,112,101,32,47,80,97,103,101,32,47,80,97,114,101,110,116,32,50,32,48,32,82,32,47,77,101,100,105,97,66,111,120,32,91,48,32,48,32>>
PageDictResources ==    \* '] /Resources << /Font << /F1 3 0 R >> >> /Contents '
    <<93,32,47,82,101,115,111,117,114,99,101,115,32,60,60,32,47,70,111,110,116,32,60,60,32,47,70,49,32,51,32,48,32,82,32,62,62,32,62,62,32,47,67,111,110,116,101,110,116,115,32>>
PageDictClose ==    \* ' 0 R >>\n'
    <<32,48,32,82,32,62,62,10>>
RefSuffix ==    \* ' 0 R'
    <<32,48,32,82>>
PagesDictOpen ==    \* '<< /Type /Pages /Count '
    <<60,60,32,47,84,121,112,101,32,47,80,97,103,101,115,32,47,67,111,117,110,116,32>>
PagesDictKids ==    \* ' /Kids ['
    <<32,47,75,105,100,115,32,91>>
PagesDictClose ==    \* '] >>\n'
    <<93,32,62,62,10>>
ObjHeaderSuffix ==    \* ' 0 obj\n'
    <<32,48,32,111,98,106,10>>
ObjFooter ==    \* 'endobj\n'
    <<101,110,100,111,98,106,10>>
XrefOpen ==    \* 'xref\n0 '
    <<120,114,101,102,10,48,32>>
XrefFreeEntry ==    \* '0000000000 65535 f \n'
    <<48,48,48,48,48,48,48,48,48,48,32,54,53,53,51,53,32,102,32,10>>
XrefEntrySuffix ==    \* ' 00000 n \n'
    <<32,48,48,48,48,48,32,110,32,10>>
TrailerOpen ==    \* 'trailer\n<< /Size '
    <<116,114,97,105,108,101,114,10,60,60,32,47,83,105,122,101,32>>
TrailerRoot ==    \* ' /Root 1 0 R >>\nstartxref\n'
    <<32,47,82,111,111,116,32,49,32,48,32,82,32,62,62,10,115,116,97,114,116,120,114,101,102,10>>
TrailerEof ==    \* '\n%%EOF'
    <<10,37,37,69,79,70>>

\* The lines of one card with a blank line after every card, the last too.
CardLinesAlwaysSeparated(card, index, count) ==
    wrapLongLine(TextCard \o Decimal(index + 1))
        \o wrapWithPrefix(card.question, PrefixQ)
        \o wrapWithPrefix(card.answer, PrefixA)
        \o << <<>> >>

\* The lines of one card: "Card N", the wrapped question and answer, and a
\* blank line unless the card is the last.
CardLines(card, index, count) ==
    wrapLongLine(TextCard \o Decimal(index + 1))
        \o wrapWithPrefix(card.question, PrefixQ)
        \o wrapWithPrefix(card.answer, PrefixA)
        \o (IF index < count - 1 THEN << <<>> >> ELSE <<>>)

\* The flat line list: localeString is what new Date().toLocaleString() returns.
FlatLines(set, localeString) ==
    LET headerTitle ==
            TextFlashcardsFor \o sanitizeTextValue(IF set.name # <<>> THEN set.name
                                                   ELSE TextImportedSet)
        generatedLine == TextGenerated \o sanitizeTextValue(localeString)
    IN  wrapLongLine(headerTitle) \o wrapLongLine(generatedLine) \o << <<>> >>
            \o Flatten([i \in 1..Len(set.cards) |->
                          CardLines(set.cards[i], i - 1, Len(set.cards))])

maxLinesPerPage ==
    LET fit == (PDF_PAGE_HEIGHT_X100 - 100 * PDF_MARGIN_TOP - 100 * PDF_MARGIN_BOTTOM)
                   \div (100 * PDF_LINE_HEIGHT)
    IN  IF fit > 1 THEN fit ELSE 1

\* The pagination loop with the test "currentPage.length > perPage".
PageStepOffByOne(st, line, perPage) ==
    IF Len(st.currentPage) > perPage
    THEN [pages |-> Append(st.pages, st.currentPage), currentPage |-> <<line>>]
    ELSE [st EXCEPT !.currentPage = Append(st.currentPage, line)]

\* One round of the pagination loop.
PageStep(st, line, perPage) ==
    IF Len(st.currentPage) >= perPage
    THEN [pages |-> Append(st.pages, st.currentPage), currentPage |-> <<line>>]
    ELSE [st EXCEPT !.currentPage = Append(st.currentPage, line)]

\* The rounds for lines[lo..hi], in order.  The state after the first half is
\* computed before the second half begins (the test on half is always true),
\* which keeps the evaluation shallow.
RECURSIVE PageRange(_, _, _, _, _)
PageRange(st, lines, perPage, lo, hi) ==
    IF lo > hi THEN st
    ELSE IF lo = hi THEN PageStep(st, lines[lo], perPage)
    ELSE LET mid == (lo + hi) \div 2
             half == PageRange(st, lines, perPage, lo, mid)
         IN  IF Len(half.pages) >= 0 THEN PageRange(half, lines, perPage, mid + 1, hi)
             ELSE half

PageLoop(st, lines, perPage) == PageRange(st, lines, perPage, 1, Len(lines))

\* contentLines, the loop, and the two fallbacks after it.
Paginate(lines, perPage) ==
    LET contentLines == IF Len(lines) > 0 THEN lines ELSE <<TextFlashcardExport>>
        st == PageLoop([pages |-> <<>>, currentPage |-> <<>>], contentLines, perPage)
        pages == IF Len(st.currentPage) > 0 THEN Append(st.pages, st.currentPage)
                 ELSE st.pages
    IN  IF Len(pages) = 0 THEN << <<TextFlashcardExport>> >> ELSE pages

\* streamParts of one page, joined by "\n", with a final "\n".
StreamBody(pageLines) ==
    LET preamble ==
            << OpBT,
               OpFontName \o Decimal(PDF_FONT_SIZE) \o OpTf,
               Decimal(PDF_LINE_HEIGHT) \o OpTL,
               OpMatrix \o Decimal(PDF_MARGIN_X) \o <<SPACE>>
                   \o DecimalX100(PDF_PAGE_HEIGHT_X100 - 100 * PDF_MARGIN_TOP) \o OpTm >>
        shown ==
            Flatten([i \in 1..Len(pageLines) |->
                       IF i # Len(pageLines)
                       THEN << <<LEFT_PAREN>> \o escapePdfText(pageLines[i]) \o OpTj, OpNextLine >>
                       ELSE << <<LEFT_PAREN>> \o escapePdfText(pageLines[i]) \o OpTj >>])
    IN  Join(preamble \o shown \o <<OpET>>, <<LF>>) \o <<LF>>

\* The content object with /Length not counting the final line break.
ContentObjectLengthBeforeNewline(pageLines, index, pageCount) ==
    LET streamBody == StreamBody(pageLines)
        streamBytes == Utf8Encode(streamBody)
    IN  [id |-> 4 + pageCount + index,
         content |-> StreamDictOpen \o Decimal(Len(streamBytes) - 1) \o StreamOpen
                         \o streamBody \o StreamClose]

ContentObject(pageLines, index, pageCount) ==
    LET streamBody == StreamBody(pageLines)
        streamBytes == Utf8Encode(streamBody)
    IN  [id |-> 4 + pageCount + index,
         content |-> StreamDictOpen \o Decimal(Len(streamBytes)) \o StreamOpen
                         \o streamBody \o StreamClose]

\* The page object with /Contents naming the object right after the first page.
PageObjectContentsAfterPages(index, pageCount) ==
    [id |-> 4 + index,
     content |-> PageDictOpen \o DecimalX100(PDF_PAGE_WIDTH_X100) \o <<SPACE>>
                     \o DecimalX100(PDF_PAGE_HEIGHT_X100) \o PageDictResources
                     \o Decimal(4 + pageCount) \o PageDictClose]

PageObject(index, pageCount) ==
    [id |-> 4 + index,
     content |-> PageDictOpen \o DecimalX100(PDF_PAGE_WIDTH_X100) \o <<SPACE>>
                     \o DecimalX100(PDF_PAGE_HEIGHT_X100) \o PageDictResources
                     \o Decimal(4 + pageCount + index) \o PageDictClose]

\* Array.prototype.sort by id, for objects whose ids differ.
SortById(objects) ==
    [k \in 1..Len(objects) |->
        objects[CHOOSE i \in 1..Len(objects) :
                  Cardinality({j \in 1..Len(objects) : objects[j].id < objects[i].id}) = k - 1]]

AllObjects(pages) ==
    LET pageCount == Len(pages)
        pageObjects == [i \in 1..pageCount |-> PageObject(i - 1, pageCount)]
        contentObjects == [i \in 1..pageCount |-> ContentObject(pages[i], i - 1, pageCount)]
        kidsRefs == Join([i \in 1..pageCount |-> Decimal(pageObjects[i].id) \o RefSuffix],
                         <<SPACE>>)
        catalogObject == [id |-> 1, content |-> CatalogContent]
        pagesObject == [id |-> 2,
                        content |-> PagesDictOpen \o Decimal(pageCount) \o PagesDictKids
                                        \o kidsRefs \o PagesDictClose]
        fontObject == [id |-> 3, content |-> FontContent]
    IN  SortById(<<catalogObject, pagesObject, fontObject>> \o pageObjects \o contentObjects)

\* The emission loop with the offset taken after the object was appended.
EmitObjectOffsetAfter(st, object) ==
    LET grown == st.pdf \o Decimal(object.id) \o ObjHeaderSuffix \o object.content \o ObjFooter
    IN  [pdf |-> grown,
         offsets |-> Append(st.offsets, [id |-> object.id, offset |-> Len(grown)])]

\* One round of allObjects.forEach: the offset, then the object.
EmitObject(st, object) ==
    [pdf |-> st.pdf \o Decimal(object.id) \o ObjHeaderSuffix \o object.content \o ObjFooter,
     offsets |-> Append(st.offsets, [id |-> object.id, offset |-> Len(st.pdf)])]

RECURSIVE EmitLoop(_, _)
EmitLoop(st, objects) ==
    IF objects = <<>> THEN st ELSE EmitLoop(EmitObject(st, Head(objects)), Tail(objects))

\* The cross-reference section, the trailer and the footer with the offset
\* of the whole header instead of the offset of the section.
XrefAndTrailerFixedOffset(st, objectCount) ==
    st.pdf \o XrefOpen \o Decimal(objectCount + 1) \o <<LF>> \o XrefFreeEntry
        \o Flatten([i \in 1..Len(st.offsets) |->
                      PadStart(Decimal(st.offsets[i].offset), 10, DIGIT_ZERO) \o XrefEntrySuffix])
        \o TrailerOpen \o Decimal(objectCount + 1) \o TrailerRoot
        \o Decimal(Len(PdfHeader)) \o TrailerEof

\* The same with the free entry not counted in the two entry counts.
XrefAndTrailerSizeWithoutFreeEntry(st, objectCount) ==
    LET xrefOffset == Len(st.pdf)
    IN  st.pdf \o XrefOpen \o Decimal(objectCount) \o <<LF>> \o XrefFreeEntry
            \o Flatten([i \in 1..Len(st.offsets) |->
                          PadStart(Decimal(st.offsets[i].offset), 10, DIGIT_ZERO)
                              \o XrefEntrySuffix])
            \o TrailerOpen \o Decimal(objectCount) \o TrailerRoot
            \o Decimal(xrefOffset) \o TrailerEof

\* The cross-reference section, the trailer and the footer appended to pdf.
XrefAndTrailer(st, objectCount) ==
    LET xrefOffset == Len(st.pdf)
    IN  st.pdf \o XrefOpen \o Decimal(objectCount + 1) \o <<LF>> \o XrefFreeEntry
            \o Flatten([i \in 1..Len(st.offsets) |->
                          PadStart(Decimal(st.offsets[i].offset), 10, DIGIT_ZERO)
                              \o XrefEntrySuffix])
            \o TrailerOpen \o Decimal(objectCount + 1) \o TrailerRoot
            \o Decimal(xrefOffset) \o TrailerEof

\* The text of the document, before it is encoded.
PdfText(set, localeString) ==
    LET pages == Paginate(FlatLines(set, localeString), maxLinesPerPage)
        allObjects == AllObjects(pages)
    IN  XrefAndTrailer(EmitLoop([pdf |-> PdfHeader, offsets |-> <<>>], allObjects),
                       Len(allObjects))

\* createFlashcardsPdfBlob without the test for an empty deck.
createFlashcardsPdfBlobOfAnyDeck(set, localeString, textEncoderDefined) ==
    IF ~textEncoderDefined THEN <<>>
    ELSE <<Utf8Encode(PdfText(set, localeString))>>

\* The Blob is <<bytes>>, null is <<>>.
createFlashcardsPdfBlob(set, localeString, textEncoderDefined) ==
    IF ~textEncoderDefined \/ Len(set.cards) = 0 THEN <<>>
    ELSE <<Utf8Encode(PdfText(set, localeString))>>


(***************************************************************************)
(* The tokenizer's inputs: texts written line by line.  A source line is   *)
(* lead \o marker \o text; kind says what it was written as ("Q" a         *)
(* question line, "A" an answer line, "P" a line with no marker).          *)
(***************************************************************************)
MarkQ == <<81,58,32>>                \* "Q: "
MarkA == <<65,58,32>>                \* "A: "

Line(kind, lead, marker, text) ==
    [kind |-> kind, lead |-> lead, marker |-> marker, text |-> text]

QuestionShapes ==
    { Line("Q", <<>>, MarkQ, <<97>>),                                        \* "Q: a"
      Line("Q", <<>>, MarkQ, <<32,98,32>>),                                  \* "Q:  b "
      Line("Q", <<50,46,32>>, <<113,117,101,115,116,105,111,110,32,58>>, <<67>>) }
                                                                             \* "2. question :C"
AnswerShapes ==
    { Line("A", <<>>, MarkA, <<120>>),                                       \* "A: x"
      Line("A", <<>>, MarkA, <<89,32>>),                                     \* "A: Y "
      Line("A", <<>>, <<65,58>>, <<>>) }                                     \* "A:"

PlainShapes ==
    { Line("P", <<>>, <<>>, <<110>>),                                        \* "n"
      Line("P", <<>>, <<>>, <<>>),                                           \* ""
      Line("P", <<51,46,32>>, <<>>, <<109>>),                                \* "3. m"
      Line("P", <<>>, <<>>, <<81,58>>) }                                     \* "Q:"

LineShapes == QuestionShapes \cup AnswerShapes \cup PlainShapes

Separators == { <<LF>>, <<CR, LF>> }

LineText(l) == l.lead \o l.marker \o l.text

TextOf(lines, sep) == Join([i \in 1..Len(lines) |-> LineText(lines[i])], sep)

SeqsUpTo(S, n) == UNION { [1..k -> S] : k \in 0..n }

\* The variables of the parts a specification does not exercise.
TokenIdle == srcLines = <<>> /\ srcSep = <<LF>> /\ raw = <<>> /\ parsedBefore = <<>>
DedupeIdle == flashcards = <<>> /\ rebuilt = <<>>
PageIdle == lineList = <<>> /\ linesPerPage = 1 /\ pageList = <<>>
PdfIdle ==
    /\ studySet = [name |-> <<>>, cards |-> <<>>]
    /\ hasTextEncoder = TRUE
    /\ clock = 0
    /\ blob = <<>>
    /\ downloadStarted = FALSE
RepeatIdle == flashcardsAgain = <<>> /\ blobAgain = <<>>
MergeIdle == mergeResult = <<>>
\* The two localStorage keys.
STORAGE_KEY == "flashcard-app:sets"
LEGACY_STORAGE_KEY == "flashcard-app:cards"

\* A localStorage value is <<document>>, or <<>> for null (no entry).
NoStorage == [key \in {STORAGE_KEY, LEGACY_STORAGE_KEY} |-> <<>>]

UiIdle ==
    /\ sets = <<>>
    /\ selectedSetId = <<>>
    /\ currentCardIndex = 0
    /\ initialLoadComplete = FALSE
    /\ effectDeps = <<>>
    /\ storage = NoStorage
    /\ storageOps = <<>>
    /\ file = <<>>
    /\ loading = FALSE
    /\ request = <<>>
    /\ error = <<>>
    /\ statusMessage = <<>>

TextIdle ==
    /\ textValue = <<>>
    /\ textPrefix = <<>>
    /\ sanitizedValue = <<>>
    /\ lineWidth = PDF_MAX_LINE_CHARS
    /\ wrappedLines = <<>>
    /\ prefixedLines = <<>>
    /\ shownLines = <<>>

(***************************************************************************)
(* SpecParse: a text is handed to parseFlashcards; then one more question  *)
(* line is appended to the text and the longer text is parsed.             *)
(***************************************************************************)
InitParse ==
    /\ pc = "text"
    /\ srcSep \in Separators
    /\ srcLines \in SeqsUpTo(LineShapes, MaxLines)
    /\ raw = TextOf(srcLines, srcSep)
    /\ parsed = <<>>
    /\ parsedBefore = <<>>
    /\ DedupeIdle /\ PageIdle /\ PdfIdle /\ RepeatIdle /\ MergeIdle /\ TextIdle
    /\ UiIdle

Parse ==
    /\ pc = "text"
    /\ parsed' = parseFlashcards(raw)
    /\ pc' = "parsed"
    /\ UNCHANGED <<uiVars, srcLines, srcSep, raw, parsedBefore, dedupeVars, pageVars, pdfVars, repeatVars, mergeVars, textVars>>

AppendQuestionLine ==
    /\ pc = "parsed"
    /\ \E q \in QuestionShapes :
          /\ srcLines' = Append(srcLines, q)
          /\ raw' = raw \o srcSep \o LineText(q)
    /\ parsedBefore' = parsed
    /\ parsed' = parseFlashcards(raw')
    /\ pc' = "reparsed"
    /\ UNCHANGED <<uiVars, srcSep, dedupeVars, pageVars, pdfVars, repeatVars, mergeVars, textVars>>

NextParse == Parse \/ AppendQuestionLine

SpecParse == InitParse /\ [][NextParse]_vars

(***************************************************************************)
(* Claims about parseFlashcards, checked under SpecParse.                  *)
(***************************************************************************)
IsBlank(s) == Trim(s) = <<>>

\* The source lines are N blocks "Q: <q>" / "A: <a>", one line each, with
\* non-blank <q> and <a>.
WellFormedBlocks ==
    /\ Len(srcLines) % 2 = 0
    /\ \A i \in 1..Len(srcLines) :
          /\ srcLines[i].lead = <<>>
          /\ ~IsBlank(srcLines[i].text)
          /\ srcLines[i].kind = (IF i % 2 = 1 THEN "Q" ELSE "A")
          /\ srcLines[i].marker = (IF i % 2 = 1 THEN MarkQ ELSE MarkA)

\* C3: a text of N well-formed "Q: <q>" / "A: <a>" blocks parses to exactly N
\* records, in input order, with the trimmed <q> and <a> of each block.
C3_RoundTrip ==
    (pc = "parsed" /\ WellFormedBlocks) =>
        parsed = [i \in 1..(Len(srcLines) \div 2) |->
                    [question |-> Trim(srcLines[2 * i - 1].text),
                     answer |-> Trim(srcLines[2 * i].text)]]

C3_Witness ==
    /\ pc = "parsed"
    /\ WellFormedBlocks
    /\ Len(srcLines) = 4
    /\ Len(parsed) = 2
    /\ parsed[1] # parsed[2]

\* The source text is a question line, an answer line, two lines without a
\* marker, and the next question line.
MultiLineAnswerText ==
    /\ Len(srcLines) = 5
    /\ <<srcLines[1].kind, srcLines[2].kind, srcLines[3].kind, srcLines[4].kind,
         srcLines[5].kind>> = <<"Q", "A", "P", "P", "Q">>

\* The three lines of the answer, each trimmed, joined by line breaks, trimmed.
ThreeLineAnswer ==
    Trim(Join(<<Trim(srcLines[2].text), Trim(LineText(srcLines[3])),
                Trim(LineText(srcLines[4]))>>, <<LF>>))

OneRecordWithThreeLineAnswer ==
    parsed = <<[question |-> Trim(srcLines[1].text), answer |-> ThreeLineAnswer]>>

\* C7 as stated: an answer line followed by two continuation lines before the
\* next question line yields one record whose answer is the three lines, each
\* trimmed, joined by line breaks (read for a joined answer that is not blank).
C7_AsStated ==
    (MultiLineAnswerText /\ pc # "text" /\ ThreeLineAnswer # <<>>) =>
        OneRecordWithThreeLineAnswer

\* A line that /^\s*\d+\.\s*/ changes: it begins with an ordinal list marker.
BeginsWithOrdinal(l) == OrdinalEnd(LineText(l), 1) > 0

\* C7, amended: the same, for continuation lines that do not begin with an
\* ordinal list marker; when the joined answer is blank there is no record.
C7_MultiLineAnswer ==
    (/\ MultiLineAnswerText
     /\ pc # "text"
     /\ ~BeginsWithOrdinal(srcLines[3])
     /\ ~BeginsWithOrdinal(srcLines[4])) =>
        IF ThreeLineAnswer # <<>> THEN OneRecordWithThreeLineAnswer ELSE parsed = <<>>

C7_Witness ==
    /\ MultiLineAnswerText
    /\ pc = "reparsed"
    /\ ~BeginsWithOrdinal(srcLines[3])
    /\ ~BeginsWithOrdinal(srcLines[4])
    /\ ~IsBlank(srcLines[2].text)
    /\ ~IsBlank(LineText(srcLines[3]))
    /\ ~IsBlank(LineText(srcLines[4]))
    /\ Len(parsed) = 1

\* C8: appending a question line that no answer line follows leaves the
\* records unchanged.
C8_DanglingQuestion ==
    pc = "reparsed" => parsed = parsedBefore

C8_Witness ==
    /\ pc = "reparsed"
    /\ Len(srcLines) >= 3
    /\ srcLines[Len(srcLines) - 1].kind = "A"
    /\ Len(parsed) >= 1

(***************************************************************************)
(* SpecDedupe: a sequence of parsed items is handed to                     *)
(* buildFlashcardsFromParsed, and the result is handed to it once more.    *)
(***************************************************************************)
QuestionTexts ==
    { <<97>>,                        \* "a"
      <<65,32>>,                     \* "A "
      <<32,97>>,                     \* " a"
      <<98>>,                        \* "b"
      <<32>> }                       \* " "

AnswerTexts ==
    { <<120>>,                       \* "x"
      <<88>>,                        \* "X"
      <<>> }                         \* ""

ParsedItems == [question : QuestionTexts, answer : AnswerTexts]

IdPool == {"id1", "id2"}

InitDedupe ==
    /\ pc = "parsed"
    /\ parsed \in SeqsUpTo(ParsedItems, MaxRecords)
    /\ flashcards = <<>>
    /\ rebuilt = <<>>
    /\ TokenIdle /\ PageIdle /\ PdfIdle /\ RepeatIdle /\ MergeIdle /\ TextIdle
    /\ UiIdle

Build ==
    /\ pc = "parsed"
    /\ \E ids \in [1..Len(parsed) -> IdPool] :
          flashcards' = buildFlashcardsFromParsed(parsed, ids)
    /\ pc' = "built"
    /\ UNCHANGED <<uiVars, tokenVars, parsed, rebuilt, pageVars, pdfVars, repeatVars, mergeVars, textVars>>

BuildAgain ==
    /\ pc = "built"
    /\ \E ids \in [1..Len(flashcards) -> IdPool] :
          rebuilt' = buildFlashcardsFromParsed(flashcards, ids)
    /\ pc' = "rebuilt"
    /\ UNCHANGED <<uiVars, tokenVars, parsed, flashcards, pageVars, pdfVars, repeatVars, mergeVars, textVars>>

NextDedupe == Build \/ BuildAgain

SpecDedupe == InitDedupe /\ [][NextDedupe]_vars

(***************************************************************************)
(* Claims about buildFlashcardsFromParsed, checked under SpecDedupe.       *)
(***************************************************************************)
\* The (question, answer) pairs of a card list.
Pairs(cards) ==
    [i \in 1..Len(cards) |-> [question |-> cards[i].question, answer |-> cards[i].answer]]

\* A record in the sense of the data model: both fields non-empty after trimming.
IsRecord(item) == ~IsBlank(item.question) /\ ~IsBlank(item.answer)

\* Two items differ at most in letter case and surrounding whitespace.
SameUpToCaseAndSpace(x, y) ==
    /\ ToLowerCase(Trim(x.question)) = ToLowerCase(Trim(y.question))
    /\ ToLowerCase(Trim(x.answer)) = ToLowerCase(Trim(y.answer))

KeyOf(item) == canonicalKey(item.question, item.answer)

\* The positions of the records that are the first of their canonical key.
FirstOfKey(items) ==
    { i \in 1..Len(items) :
        /\ IsRecord(items[i])
        /\ \A j \in 1..(i - 1) : IsRecord(items[j]) => KeyOf(items[j]) # KeyOf(items[i]) }

\* The k-th smallest member of a set of positions.
Nth(S, k) == CHOOSE i \in S : Cardinality({j \in S : j < i}) = k - 1

\* C4: the deck is the first record of every canonical key, in first-seen
\* order, and no later record that differs from an earlier one only in letter
\* case or surrounding whitespace is kept.
C4_FirstOccurrenceWins ==
    pc = "built" =>
        LET first == FirstOfKey(parsed)
        IN  /\ Len(flashcards) = Cardinality(first)
            /\ \A k \in 1..Len(flashcards) :
                  /\ flashcards[k].question = Trim(parsed[Nth(first, k)].question)
                  /\ flashcards[k].answer = Trim(parsed[Nth(first, k)].answer)
            /\ \A i \in first : \A j \in 1..(i - 1) :
                  IsRecord(parsed[j]) => ~SameUpToCaseAndSpace(parsed[j], parsed[i])

\* R1, another record, then a case and whitespace variant R2 of R1.
C4_Witness ==
    /\ pc = "built"
    /\ Len(parsed) = 3
    /\ IsRecord(parsed[1]) /\ IsRecord(parsed[2])
    /\ parsed[3] # parsed[1]
    /\ SameUpToCaseAndSpace(parsed[1], parsed[3])
    /\ ~SameUpToCaseAndSpace(parsed[1], parsed[2])
    /\ Len(flashcards) = 2
    /\ flashcards[1].question = Trim(parsed[1].question)

\* C5: building from the deck once more gives the same (question, answer)
\* sequence as building once.
C5_Idempotent ==
    pc = "rebuilt" => Pairs(rebuilt) = Pairs(flashcards)

C5_Witness ==
    /\ pc = "rebuilt"
    /\ Len(parsed) = 3
    /\ Len(flashcards) = 2
    /\ Len(rebuilt) = 2

(***************************************************************************)
(* SpecPaginate: a line list and a page size are handed to the pagination  *)
(* loop of createFlashcardsPdfBlob.                                        *)
(***************************************************************************)
\* L lines that all differ: "A", "B", ...
NumberedLines(n) == [i \in 1..n |-> <<64 + i>>]

InitPaginate ==
    /\ pc = "lines"
    /\ \E n \in 0..MaxContentLines : lineList = NumberedLines(n)
    /\ linesPerPage \in 1..MaxPerPage
    /\ pageList = <<>>
    /\ parsed = <<>>
    /\ TokenIdle /\ DedupeIdle /\ PdfIdle /\ RepeatIdle /\ MergeIdle /\ TextIdle
    /\ UiIdle

PaginateLines ==
    /\ pc = "lines"
    /\ pageList' = Paginate(lineList, linesPerPage)
    /\ pc' = "paged"
    /\ UNCHANGED <<uiVars, tokenVars, parsed, dedupeVars, lineList, linesPerPage, pdfVars, repeatVars, mergeVars, textVars>>

NextPaginate == PaginateLines

SpecPaginate == InitPaginate /\ [][NextPaginate]_vars

\* C6: L >= 1 lines and P >= 1 lines per page give ceil(L / P) pages, each of
\* 1 to P lines, all but the last of exactly P lines, whose concatenation in
\* order is the line list.
C6_PaginationExact ==
    (pc = "paged" /\ Len(lineList) >= 1) =>
        /\ Len(pageList) = (Len(lineList) + linesPerPage - 1) \div linesPerPage
        /\ \A k \in 1..Len(pageList) :
              /\ Len(pageList[k]) >= 1
              /\ Len(pageList[k]) <= linesPerPage
              /\ k < Len(pageList) => Len(pageList[k]) = linesPerPage
        /\ Flatten(pageList) = lineList

\* Three full pages and a shorter last one.
C6_Witness ==
    /\ pc = "paged"
    /\ linesPerPage = 3
    /\ Len(lineList) = 11
    /\ Len(pageList) = 4
    /\ Len(pageList[4]) = 2

(***************************************************************************)
(* SpecPdf: a set is shown in the study panel; time passes; the document   *)
(* is created, by createFlashcardsPdfBlob alone or by the download button. *)
(***************************************************************************)
CardTemplates ==
    << [question |-> <<87,104,97,116,32,105,115,32,50,43,50,63>>, answer |-> <<52>>],
           \* "What is 2+2?" / "4"
       [question |-> <<67,97,112,105,116,97,108,32,111,102,32,70,114,97,110,99,101,63>>, answer |-> <<80,97,114,105,115>>],
           \* "Capital of France?" / "Paris"
       [question |-> <<102,40,120,41,32,92,32,233,63>>, answer |-> <<120,10,121,32,8226,32,40,122,41>>] >>
           \* "f(x) \ e-acute ?" / "x", line break, "y", bullet, "(z)"

\* N cards: the templates in turn, from the one after shift.
Deck(n, shift) ==
    [i \in 1..n |->
        LET t == CardTemplates[((i - 1 + shift) % Len(CardTemplates)) + 1]
        IN  [id |-> "id1", question |-> t.question, answer |-> t.answer, learned |-> FALSE]]

SetNames ==
    { <<>>,                                       \* ""
      <<66,105,111,32,40,49,41>>,                    \* "Bio (1)"
      <<67,97,102,233,9,110,111,116,101,115>> }          \* "Caf", e-acute, tab, "notes"

StudySets ==
    { [name |-> nm, cards |-> Deck(n, shift)] :
        nm \in SetNames, n \in 0..MaxCards, shift \in 0..(Len(CardTemplates) - 1) }

\* new Date().toLocaleString() in second clock of the minute: en-US, with the
\* narrow no-break space (U+202F) that ICU puts before "AM".
LocaleString(second) ==
    <<49,49,47,52,47,50,48,50,54,44,32,57,58,48,48,58,48>> \o <<DIGIT_ZERO + second, 8239>> \o <<65,77>>

InitPdf ==
    /\ pc = "ready"
    /\ studySet \in StudySets
    /\ hasTextEncoder \in BOOLEAN
    /\ clock = 0
    /\ blob = <<>>
    /\ downloadStarted = FALSE
    /\ parsed = <<>>
    /\ TokenIdle /\ DedupeIdle /\ PageIdle /\ RepeatIdle /\ MergeIdle /\ TextIdle
    /\ UiIdle

Tick ==
    /\ clock < MaxClock
    /\ clock' = clock + 1
    /\ UNCHANGED <<uiVars, pc, tokenVars, parsed, dedupeVars, pageVars, repeatVars, mergeVars, textVars,
                   studySet, hasTextEncoder, blob,
                   downloadStarted>>

CreatePdfBlob ==
    /\ pc = "ready"
    /\ blob' = createFlashcardsPdfBlob(studySet, LocaleString(clock), hasTextEncoder)
    /\ pc' = "created"
    /\ UNCHANGED <<uiVars, tokenVars, parsed, dedupeVars, pageVars, repeatVars, mergeVars, textVars,
                   studySet, hasTextEncoder, clock,
                   downloadStarted>>

\* handleDownloadClick: a set is selected and window is defined.
HandleDownloadClick ==
    /\ pc = "ready"
    /\ IF Len(studySet.cards) = 0
       THEN UNCHANGED <<uiVars, blob, downloadStarted>>
       ELSE /\ blob' = createFlashcardsPdfBlob(studySet, LocaleString(clock), hasTextEncoder)
            /\ downloadStarted' = (blob' # <<>>)
    /\ pc' = "clicked"
    /\ UNCHANGED <<uiVars, tokenVars, parsed, dedupeVars, pageVars, repeatVars, mergeVars, textVars,
                   studySet, hasTextEncoder, clock>>

\* A second call of createFlashcardsPdfBlob with the same set.
CreatePdfBlobAgain ==
    /\ pc = "created"
    /\ blobAgain' = createFlashcardsPdfBlob(studySet, LocaleString(clock), hasTextEncoder)
    /\ pc' = "recreated"
    /\ UNCHANGED <<uiVars, tokenVars, parsed, dedupeVars, pageVars, pdfVars, flashcardsAgain, mergeVars,
                   textVars>>

NextPdf == Tick \/ CreatePdfBlob \/ HandleDownloadClick \/ CreatePdfBlobAgain

SpecPdf == InitPdf /\ [][NextPdf]_vars

(***************************************************************************)
(* Reading a document back from its bytes.                                 *)
(***************************************************************************)
\* The bytes of pattern stand in b from index i on.
StartsWithAt(b, i, pattern) ==
    /\ i >= 1
    /\ i + Len(pattern) - 1 <= Len(b)
    /\ \A k \in 1..Len(pattern) : b[i + k - 1] = pattern[k]

Occurrences(b, pattern) == {i \in 1..Len(b) : StartsWithAt(b, i, pattern)}

\* The index of the last occurrence of pattern that begins in b[lo..hi], 0
\* when there is none: the upper half is searched first.
RECURSIVE FindLastIn(_, _, _, _)
FindLastIn(b, pattern, lo, hi) ==
    IF lo > hi THEN 0
    ELSE IF lo = hi THEN (IF StartsWithAt(b, lo, pattern) THEN lo ELSE 0)
    ELSE LET mid == (lo + hi) \div 2
             upper == FindLastIn(b, pattern, mid + 1, hi)
         IN  IF upper # 0 THEN upper ELSE FindLastIn(b, pattern, lo, mid)

\* The index of the last occurrence of pattern in b, 0 when there is none.
FindLast(b, pattern) == FindLastIn(b, pattern, 1, Len(b))

\* The number written in decimal digits from index i of b on.
RECURSIVE NatFrom(_, _, _)
NatFrom(b, i, acc) ==
    IF i <= Len(b) /\ IsDigit(b[i]) THEN NatFrom(b, i + 1, 10 * acc + (b[i] - DIGIT_ZERO))
    ELSE acc

NatAt(b, i) == NatFrom(b, i, 0)

TextStartxref == <<115,116,97,114,116,120,114,101,102,10>>          \* "startxref\n"
TextXref == <<120,114,101,102>>                              \* "xref"
TextPagesCountOne == <<60,60,32,47,84,121,112,101,32,47,80,97,103,101,115,32,47,67,111,117,110,116,32,49,32>>
                                                                \* "<< /Type /Pages /Count 1 "

DocBytes == blob[1]

\* The index in the bytes at which the cross-reference section begins: the
\* "xref" that follows the last object.
XrefIndex == FindLast(DocBytes, ObjFooter \o XrefOpen) + Len(ObjFooter)

\* The entry count of the section's header line "0 N".
XrefEntryCount == NatAt(DocBytes, XrefIndex + Len(XrefOpen))

\* The index of entry k (k = 0 is the free entry): entries are 20 bytes long.
XrefEntryIndex(k) ==
    LET count == XrefIndex + Len(XrefOpen)
    IN  count + Len(Decimal(NatAt(DocBytes, count))) + 1 + 20 * k

\* The offset that entry k holds.
XrefEntryOffset(k) == NatAt(DocBytes, XrefEntryIndex(k))

\* The number written after "startxref".
StartxrefValue == NatAt(DocBytes, FindLast(DocBytes, TextStartxref) + Len(TextStartxref))

\* The object count /Size that the trailer declares.
TrailerSize == NatAt(DocBytes, FindLast(DocBytes, TrailerOpen) + Len(TrailerOpen))

\* "k 0 obj" begins a line at byte position offset (positions count from 0).
ObjectHeaderAt(k, offset) ==
    /\ offset >= 1
    /\ DocBytes[offset] = LF
    /\ StartsWithAt(DocBytes, offset + 1, Decimal(k) \o ObjHeaderSuffix)

DocumentMade == pc \in {"created", "clicked", "recreated"} /\ blob # <<>>

(***************************************************************************)
(* Claims about createFlashcardsPdfBlob, checked under SpecPdf.            *)
(***************************************************************************)
\* C1: every in-use cross-reference entry k, for k from 1 to the number of
\* objects, holds the byte position in the encoded document at which the
\* header "k 0 obj" begins.
C1_OffsetsExact ==
    DocumentMade =>
        /\ XrefIndex > Len(ObjFooter)
        /\ XrefEntryCount - 1 = Cardinality(Occurrences(DocBytes, ObjFooter))
        /\ \A k \in 1..(XrefEntryCount - 1) :
              /\ StartsWithAt(DocBytes, XrefEntryIndex(k) + 10, XrefEntrySuffix)
              /\ ObjectHeaderAt(k, XrefEntryOffset(k))

\* A document of two pages (seven objects), from texts with characters outside
\* the printable range.
C1_Witness ==
    /\ DocumentMade
    /\ XrefEntryCount = 8
    /\ \E i \in 1..Len(studySet.name) : studySet.name[i] > 126
    /\ ObjectHeaderAt(7, XrefEntryOffset(7))

\* C2: the number after "startxref" is the byte position at which the "xref"
\* keyword of the cross-reference section begins.
C2_StartxrefExact ==
    DocumentMade =>
        /\ XrefIndex > Len(ObjFooter)
        /\ StartxrefValue = XrefIndex - 1
        /\ StartsWithAt(DocBytes, StartxrefValue + 1, TextXref)

C2_Witness ==
    /\ DocumentMade
    /\ StartxrefValue > 1000
    /\ StartsWithAt(DocBytes, StartxrefValue + 1, XrefOpen)

\* The deck of the end-to-end example.
TwoRecordDeck == Pairs(studySet.cards) = Pairs(Deck(2, 0))

\* Object 1 is the Catalog and refers to object 2, the PageTree, of one page.
CatalogPointsToPageTree ==
    /\ StartsWithAt(DocBytes, XrefEntryOffset(1) + 1,
                    Decimal(1) \o ObjHeaderSuffix \o CatalogContent)
    /\ StartsWithAt(DocBytes, XrefEntryOffset(2) + 1,
                    Decimal(2) \o ObjHeaderSuffix \o TextPagesCountOne)

\* C9 as stated: the document of the two-record deck declares /Size 7 and its
\* Catalog refers to the PageTree.
C9_AsStated ==
    (DocumentMade /\ TwoRecordDeck) => (TrailerSize = 7 /\ CatalogPointsToPageTree)

\* C9, amended: the document of the two-record deck has one page, declares
\* /Size 6 (five objects and the free entry) and its Catalog refers to the
\* PageTree.
C9_TwoRecordDocument ==
    (DocumentMade /\ TwoRecordDeck) =>
        /\ TrailerSize = 6
        /\ XrefEntryCount = 6
        /\ CatalogPointsToPageTree

C9_Witness ==
    /\ DocumentMade
    /\ TwoRecordDeck
    /\ TrailerSize = 6
    /\ studySet.cards[2].answer = <<80,97,114,105,115>>

\* C10: createFlashcardsPdfBlob returns null exactly when the deck is empty or
\* TextEncoder is missing, and a document otherwise.
C10_NullExactlyWhenNothingToEncode ==
    pc = "created" =>
        /\ (blob = <<>>) <=> (Len(studySet.cards) = 0 \/ ~hasTextEncoder)
        /\ blob # <<>> =>
              /\ StartsWithAt(DocBytes, 1, PdfHeader)
              /\ StartsWithAt(DocBytes, Len(DocBytes) - Len(TrailerEof) + 1, TrailerEof)

\* Null for an empty deck although TextEncoder is there.
C10_Witness ==
    /\ pc = "created"
    /\ blob = <<>>
    /\ Len(studySet.cards) = 0
    /\ hasTextEncoder

\* C11: two calls of createFlashcardsPdfBlob with the same title and the same
\* deck return byte-identical documents, whatever happens between the calls.
C11_SameBytesOnRepeat == pc = "recreated" => blobAgain = blob

(***************************************************************************)
(* SpecPipeline: a raw text is tokenized and deduplicated, as the upload   *)
(* handler does, and then the same text is run through both steps again.   *)
(***************************************************************************)
RunAgain ==
    /\ pc = "built"
    /\ \E ids \in [1..Len(parseFlashcards(raw)) -> IdPool] :
          flashcardsAgain' = buildFlashcardsFromParsed(parseFlashcards(raw), ids)
    /\ pc' = "rerun"
    /\ UNCHANGED <<uiVars, tokenVars, parsed, dedupeVars, pageVars, pdfVars, blobAgain, mergeVars,
                   textVars>>

NextPipeline == Parse \/ Build \/ RunAgain

SpecPipeline == InitParse /\ [][NextPipeline]_vars

\* C12: running parseFlashcards and then buildFlashcardsFromParsed twice on
\* the same raw text gives the same records in the same order, whatever
\* identifiers createId hands out in the two runs.
C12_SameDeckOnRerun == pc = "rerun" => Pairs(flashcardsAgain) = Pairs(flashcards)

\* Two records of which the second is a duplicate, and runs that were given
\* different identifiers.
C12_Witness ==
    /\ pc = "rerun"
    /\ Len(parsed) = 2
    /\ Len(flashcards) = 1
    /\ Len(flashcardsAgain) = 1
    /\ flashcardsAgain[1].id # flashcards[1].id

(***************************************************************************)
(* More claims about parseFlashcards, checked under SpecParse.             *)
(***************************************************************************)
\* The number of source lines written as kind.
CountKind(kind) == Cardinality({i \in 1..Len(srcLines) : srcLines[i].kind = kind})

Kinds == [i \in 1..Len(srcLines) |-> srcLines[i].kind]

\* C13: for every text parseFlashcards returns a sequence of records, empty
\* or not: every record has a non-empty question and answer, there are no
\* more records than question lines and no more than answer lines, so that
\* a text without markers, answers without questions and questions without
\* answers give nothing.
C13_Total ==
    pc \in {"parsed", "reparsed"} =>
        /\ DOMAIN parsed = 1..Len(parsed)
        /\ \A i \in 1..Len(parsed) :
              /\ DOMAIN parsed[i] = {"question", "answer"}
              /\ parsed[i].question # <<>>
              /\ parsed[i].answer # <<>>
        /\ Len(parsed) <= CountKind("Q")
        /\ Len(parsed) <= CountKind("A")
        /\ raw = <<>> => parsed = <<>>

\* An answer without a question, then a question without an answer, a line
\* without a marker and another question: nothing is returned.
C13_Witness ==
    /\ pc = "parsed"
    /\ Kinds = <<"A", "Q", "P", "Q">>
    /\ parsed = <<>>

(***************************************************************************)
(* SpecNumbered: texts written as numbered lists are handed to             *)
(* parseFlashcards.  The lead of a line is its ordinal marker.             *)
(***************************************************************************)
NumberedShapes ==
    { Line("Q", <<>>, MarkQ, <<97>>),                                  \* "Q: a"
      Line("Q", <<49,46,32>>, MarkQ, <<97>>),                           \* "1. Q: a"
      Line("Q", <<32,49,50,46>>, <<81,117,101,115,116,105,111,110,58,32>>, <<98>>),
                                                                       \* " 12.Question: b"
      Line("A", <<>>, MarkA, <<120>>),                                 \* "A: x"
      Line("A", <<50,46,32>>, MarkA, <<120>>),                          \* "2. A: x"
      Line("A", <<51,46,9>>, <<65,110,115,119,101,114,58>>, <<>>),         \* "3.", tab, "Answer:"
      Line("P", <<>>, <<>>, <<>>),                                     \* ""
      Line("P", <<>>, <<>>, <<110>>),                                  \* "n"
      Line("P", <<52,46,32>>, <<>>, <<109>>) }                          \* "4. m"

InitNumbered ==
    /\ pc = "text"
    /\ srcSep \in Separators
    /\ srcLines \in SeqsUpTo(NumberedShapes, MaxLines)
    /\ raw = TextOf(srcLines, srcSep)
    /\ parsed = <<>>
    /\ parsedBefore = <<>>
    /\ DedupeIdle /\ PageIdle /\ PdfIdle /\ RepeatIdle /\ MergeIdle /\ TextIdle
    /\ UiIdle

NextNumbered == Parse

SpecNumbered == InitNumbered /\ [][NextNumbered]_vars

\* The lines with the ordinal markers of the question and answer lines removed.
WithoutMarkers(lines) ==
    [i \in 1..Len(lines) |->
        IF lines[i].kind \in {"Q", "A"} THEN [lines[i] EXCEPT !.lead = <<>>] ELSE lines[i]]

\* C14: a text whose question and answer lines carry leading ordinal markers
\* parses to the same records as the text without those markers.
C14_MarkersIgnored ==
    pc = "parsed" => parsed = parseFlashcards(TextOf(WithoutMarkers(srcLines), srcSep))

\* Two numbered blocks give two records.
C14_Witness ==
    /\ pc = "parsed"
    /\ Len(srcLines) = 4
    /\ \A i \in 1..4 : srcLines[i].lead # <<>>
    /\ Kinds = <<"Q", "A", "Q", "A">>
    /\ Len(parsed) = 2

(***************************************************************************)
(* SpecText: a string is sanitized, or wrapped without and with a prefix   *)
(* and its wrapped lines put into text-show operators.                     *)
(***************************************************************************)
\* Space, tab, narrow no-break space; "a"; DEL, e-acute; "(" and backslash.
ValueAlphabet == {SPACE, 9, 8239, 97, 127, 233, LEFT_PAREN, BACKSLASH}

\* Word lengths around the width 90 and the width 87 left beside a prefix.
WordLengths == {1, 44, 87, 88, 90, 91, 180}

\* "a", "~", "(", ")" and backslash
WordFills == {97, 126, LEFT_PAREN, RIGHT_PAREN, BACKSLASH}

\* Words of one repeated character, separated by single spaces.
WordTexts ==
    { Join([i \in 1..Len(ws) |-> [k \in 1..ws[i] |-> fill]], <<SPACE>>) :
        ws \in SeqsUpTo(WordLengths, MaxWords) \ {<<>>}, fill \in WordFills }

TextValues == SeqsUpTo(ValueAlphabet, MaxValueLen) \cup WordTexts

InitText ==
    /\ pc = "value"
    /\ textValue \in TextValues
    /\ textPrefix = <<>>
    /\ sanitizedValue = <<>>
    /\ lineWidth = PDF_MAX_LINE_CHARS
    /\ wrappedLines = <<>>
    /\ prefixedLines = <<>>
    /\ shownLines = <<>>
    /\ parsed = <<>>
    /\ TokenIdle /\ DedupeIdle /\ PageIdle /\ PdfIdle /\ RepeatIdle /\ MergeIdle
    /\ UiIdle

Sanitize ==
    /\ pc = "value"
    /\ sanitizedValue' = <<sanitizeTextValue(textValue)>>
    /\ pc' = "sanitized"
    /\ UNCHANGED <<uiVars, tokenVars, parsed, dedupeVars, pageVars, pdfVars, repeatVars, mergeVars,
                   textValue, textPrefix, lineWidth, wrappedLines, prefixedLines, shownLines>>

\* wrapLongLine(value), and wrapWithPrefix(value, "Q: ") or (value, "A: ").
Wrap ==
    /\ pc = "value"
    /\ \E prefix \in {PrefixQ, PrefixA} :
          /\ textPrefix' = prefix
          /\ prefixedLines' = wrapWithPrefix(textValue, prefix)
    /\ wrappedLines' = wrapLongLine(textValue)
    /\ pc' = "wrapped"
    /\ UNCHANGED <<uiVars, tokenVars, parsed, dedupeVars, pageVars, pdfVars, repeatVars, mergeVars,
                   textValue, sanitizedValue, lineWidth, shownLines>>

\* streamParts.push(`(${escapePdfText(line)}) Tj`) for each wrapped line.
ShowText ==
    /\ pc = "wrapped"
    /\ shownLines' = [i \in 1..Len(prefixedLines) |->
                         <<LEFT_PAREN>> \o escapePdfText(prefixedLines[i]) \o OpTj]
    /\ pc' = "shown"
    /\ UNCHANGED <<uiVars, tokenVars, parsed, dedupeVars, pageVars, pdfVars, repeatVars, mergeVars,
                   textValue, textPrefix, sanitizedValue, lineWidth, wrappedLines, prefixedLines>>

NextText == Sanitize \/ Wrap \/ ShowText

SpecText == InitText /\ [][NextText]_vars
(***************************************************************************)
(* Claims about sanitizeTextValue, the wrap functions and escapePdfText,   *)
(* checked under SpecText.                                                 *)
(***************************************************************************)
\* The characters of s that are not whitespace, in order.
Ink(s) == LET NotSpace(c) == ~IsSpace(c) IN SelectSeq(s, NotSpace)

\* The places where a whitespace run begins after a word and a word follows.
InnerRuns(s) ==
    {i \in 2..Len(s) : /\ IsSpace(s[i])
                        /\ ~IsSpace(s[i - 1])
                        /\ \E j \in (i + 1)..Len(s) : ~IsSpace(s[j])}

\* C15: sanitizeTextValue returns printable single-byte characters only
\* (32..126), with no two spaces in a row and no space at either end; each
\* whitespace run between words has become one space, and every other
\* character outside 32..126 has become "?".
C15_Sanitized ==
    pc = "sanitized" =>
        LET out == sanitizedValue[1]
            ink == Ink(textValue)
        IN  /\ \A i \in 1..Len(out) : out[i] >= 32 /\ out[i] <= 126
            /\ \A i \in 1..(Len(out) - 1) : ~(out[i] = SPACE /\ out[i + 1] = SPACE)
            /\ out # <<>> => (out[1] # SPACE /\ out[Len(out)] # SPACE)
            /\ Ink(out) = [k \in 1..Len(ink) |->
                              IF ink[k] >= 33 /\ ink[k] <= 126 THEN ink[k] ELSE QUESTION_MARK]
            /\ Cardinality({i \in 1..Len(out) : out[i] = SPACE})
                   = Cardinality(InnerRuns(textValue))

\* "a", tab, narrow no-break space, DEL gives "a ?".
C15_Witness ==
    /\ pc = "sanitized"
    /\ textValue = <<97, 9, 8239, 127>>
    /\ sanitizedValue = << <<97, SPACE, QUESTION_MARK>> >>
\* The text of a prefixed line: what follows the prefix or the indent.
Beside(line) == SubSeq(line, Len(textPrefix) + 1, Len(line))

OneLongWord ==
    /\ Len(textValue) > PDF_MAX_LINE_CHARS
    /\ \A i \in 1..Len(textValue) : textValue[i] >= 33 /\ textValue[i] <= 126

\* C16: with the width 90, every line of wrapLongLine is at most 90 long and
\* every line of wrapWithPrefix is at most 90 long with its prefix (first
\* line) or its indent of the same length (later lines); a word longer than
\* the available width is cut into chunks of that width.
C16_NoOverflow ==
    pc \in {"wrapped", "shown"} =>
        /\ \A i \in 1..Len(wrappedLines) : Len(wrappedLines[i]) <= PDF_MAX_LINE_CHARS
        /\ \A i \in 1..Len(prefixedLines) : Len(prefixedLines[i]) <= PDF_MAX_LINE_CHARS
        /\ Ink(textValue) # <<>> =>
              \A i \in 1..Len(prefixedLines) :
                  SubSeq(prefixedLines[i], 1, Len(textPrefix))
                      = IF i = 1 THEN textPrefix ELSE [k \in 1..Len(textPrefix) |-> SPACE]
        /\ OneLongWord =>
              /\ Flatten(wrappedLines) = textValue
              /\ \A i \in 1..(Len(wrappedLines) - 1) :
                    Len(wrappedLines[i]) = PDF_MAX_LINE_CHARS
              /\ Flatten([i \in 1..Len(prefixedLines) |-> Beside(prefixedLines[i])]) = textValue
              /\ \A i \in 1..(Len(prefixedLines) - 1) :
                    Len(prefixedLines[i]) = PDF_MAX_LINE_CHARS

\* A word of 180 characters: two full lines without a prefix, three lines
\* beside a prefix.
C16_Witness ==
    /\ pc = "wrapped"
    /\ OneLongWord
    /\ Len(textValue) = 180
    /\ Len(wrappedLines) = 2
    /\ Len(prefixedLines) = 3
    /\ Len(prefixedLines[3]) = 9
\* The characters that escapePdfText escapes.
IsSpecial(c) == c \in {LEFT_PAREN, RIGHT_PAREN, BACKSLASH}

\* The operand of a text-show operator "(operand) Tj".
Operand(shown) == SubSeq(shown, 2, Len(shown) - Len(OpTj))

\* The number of backslashes in a row that end right before index i of e.
BackslashesBefore(e, i) ==
    i - 1 - (CHOOSE j \in 0..(i - 1) :
                /\ j = 0 \/ e[j] # BACKSLASH
                /\ \A k \in (j + 1)..(i - 1) : e[k] = BACKSLASH)

\* The backslash at index i of e escapes the character after it.
IsEscaper(e, i) == e[i] = BACKSLASH /\ BackslashesBefore(e, i) % 2 = 0

\* e[lo..hi] with the escaping backslashes taken out.
RECURSIVE UnescapeRange(_, _, _)
UnescapeRange(e, lo, hi) ==
    IF lo > hi THEN <<>>
    ELSE IF lo = hi THEN (IF IsEscaper(e, lo) THEN <<>> ELSE <<e[lo]>>)
    ELSE LET mid == (lo + hi) \div 2
         IN  UnescapeRange(e, lo, mid) \o UnescapeRange(e, mid + 1, hi)

Unescape(e) == UnescapeRange(e, 1, Len(e))

\* C20: in the text-show operator of a line every "(", ")" and backslash of
\* the line is preceded by exactly one escaping backslash, nothing else is
\* added, and un-escaping the operand gives back the line; the line, not its
\* escaped form, is what was wrapped to the width.
C20_EscapedOnce ==
    pc = "shown" =>
        /\ Len(shownLines) = Len(prefixedLines)
        /\ \A i \in 1..Len(shownLines) :
              LET line == prefixedLines[i]
                  e == Operand(shownLines[i])
              IN  /\ shownLines[i] = <<LEFT_PAREN>> \o e \o OpTj
                  /\ Len(e) = Len(line) + Cardinality({k \in 1..Len(line) : IsSpecial(line[k])})
                  /\ \A k \in 1..Len(e) :
                        (IsSpecial(e[k]) /\ ~IsEscaper(e, k)) =>
                            (k > 1 /\ IsEscaper(e, k - 1))
                  /\ \A k \in 1..Len(e) : IsEscaper(e, k) => (k < Len(e) /\ IsSpecial(e[k + 1]))
                  /\ Unescape(e) = line
                  /\ Len(line) <= PDF_MAX_LINE_CHARS

\* A word of 91 backslashes: the first line is 90 long, its operand 177.
C20_Witness ==
    /\ pc = "shown"
    /\ Len(textValue) = 91
    /\ textValue[1] = BACKSLASH
    /\ Len(prefixedLines) = 2
    /\ Len(prefixedLines[1]) = PDF_MAX_LINE_CHARS
    /\ Len(Operand(shownLines[1])) = 177
(***************************************************************************)
(* SpecMerge: the stored cards and the cards parsed from an upload are     *)
(* handed to mergeFlashcards.                                              *)
(***************************************************************************)
\* Stored cards: "a"/"x" and "b"/"x", learned or not.
ExistingCards ==
    [id : {"e1"}, question : {<<97>>, <<98>>}, answer : {<<120>>}, learned : BOOLEAN]

\* What the upload delivers: items with a question and an answer.
IncomingRecords == {item \in ParsedItems : IsRecord(item)}

InitMerge ==
    /\ pc = "stored"
    /\ flashcards \in SeqsUpTo(ExistingCards, MaxExisting)
    /\ parsed \in SeqsUpTo(IncomingRecords, MaxIncoming)
    /\ rebuilt = <<>>
    /\ mergeResult = <<>>
    /\ TokenIdle /\ PageIdle /\ PdfIdle /\ RepeatIdle /\ TextIdle
    /\ UiIdle

Merge ==
    /\ pc = "stored"
    /\ \E ids \in [1..Len(parsed) -> IdPool] :
          mergeResult' = <<mergeFlashcards(flashcards, parsed, ids)>>
    /\ pc' = "merged"
    /\ UNCHANGED <<uiVars, tokenVars, parsed, dedupeVars, pageVars, pdfVars, repeatVars, textVars>>

NextMerge == Merge

SpecMerge == InitMerge /\ [][NextMerge]_vars

\* The incoming positions whose canonical key is that of no existing card and
\* of no earlier incoming item.
FirstNew ==
    { i \in 1..Len(parsed) :
        /\ \A j \in 1..Len(flashcards) : KeyOf(flashcards[j]) # KeyOf(parsed[i])
        /\ \A j \in 1..(i - 1) : KeyOf(parsed[j]) # KeyOf(parsed[i]) }

\* C17: the result of mergeFlashcards begins with the existing cards as they
\* were (ids and learned flags included), continues with the incoming items
\* whose canonical key is new, in order, trimmed and not learned, and
\* addedCount is the number of cards added.
C17_MergeAppendsNew ==
    pc = "merged" =>
        LET result == mergeResult[1]
            n == Len(flashcards)
        IN  /\ Len(result.cards) = n + result.addedCount
            /\ SubSeq(result.cards, 1, n) = flashcards
            /\ result.addedCount = Cardinality(FirstNew)
            /\ \A k \in 1..Cardinality(FirstNew) :
                  LET item == parsed[Nth(FirstNew, k)]
                      card == result.cards[n + k]
                  IN  /\ card.question = Trim(item.question)
                      /\ card.answer = Trim(item.answer)
                      /\ card.learned = FALSE
                      /\ card.id \in IdPool

\* A learned card is stored; of two incoming items that differ in case and
\* spacing only, the first is added, and the stored card stays learned.
C17_Witness ==
    /\ pc = "merged"
    /\ Len(flashcards) = 1
    /\ flashcards[1].learned
    /\ flashcards[1].question = <<97>>
    /\ Len(parsed) = 2
    /\ parsed[1].question = <<98>>
    /\ KeyOf(parsed[1]) = KeyOf(parsed[2])
    /\ mergeResult[1].addedCount = 1
    /\ mergeResult[1].cards[1].learned
(***************************************************************************)
(* Claims about the objects of the document, checked under SpecPdf.        *)
(***************************************************************************)
\* The number of pages the lines of the study set are split into.
PageCount == Len(Paginate(FlatLines(studySet, LocaleString(clock)), maxLinesPerPage))

\* The byte position after the last byte of object k: where the next object
\* or the cross-reference section begins.
ObjectEnd(k) == IF k < XrefEntryCount - 1 THEN XrefEntryOffset(k + 1) ELSE XrefIndex - 1

\* Object k begins with text after its header "k 0 obj".
ObjectBegins(k, text) ==
    StartsWithAt(DocBytes, XrefEntryOffset(k) + 1, Decimal(k) \o ObjHeaderSuffix \o text)

\* Object k ends with text before its "endobj".
ObjectEnds(k, text) ==
    StartsWithAt(DocBytes, ObjectEnd(k) + 1 - Len(text \o ObjFooter), text \o ObjFooter)

\* Object k is text and nothing else.
ObjectIs(k, text) ==
    /\ ObjectBegins(k, text)
    /\ ObjectEnd(k) - XrefEntryOffset(k) = Len(Decimal(k) \o ObjHeaderSuffix \o text \o ObjFooter)

\* "4 0 R 5 0 R ..." for the ids first..last.
Refs(first, last) == Join([i \in 1..(last - first + 1) |-> Decimal(first + i - 1) \o RefSuffix], <<SPACE>>)

\* C18: in a document of P pages object 1 is the Catalog, 2 the PageTree, 3
\* the Font, 4..3+P the Pages and 4+P..3+2P their Contents; the i-th Page
\* (from 0) names /Parent 2, font 3 and /Contents 4+P+i; the PageTree lists
\* the P page ids in order in /Kids and has /Count P.
C18_ObjectIds ==
    DocumentMade =>
        /\ XrefEntryCount - 1 = 3 + 2 * PageCount
        /\ ObjectIs(1, CatalogContent)
        /\ ObjectIs(2, PagesDictOpen \o Decimal(PageCount) \o PagesDictKids
                          \o Refs(4, 3 + PageCount) \o PagesDictClose)
        /\ ObjectIs(3, FontContent)
        /\ \A i \in 0..(PageCount - 1) :
              /\ ObjectBegins(4 + i, PageDictOpen)
              /\ ObjectEnds(4 + i, PageDictResources \o Decimal(4 + PageCount + i)
                                      \o PageDictClose)
              /\ ObjectBegins(4 + PageCount + i, StreamDictOpen)
              /\ ObjectEnds(4 + PageCount + i, OpET \o <<LF>> \o StreamClose)

\* A document of two pages: Pages 4 and 5, Contents 6 and 7.
C18_Witness ==
    /\ DocumentMade
    /\ PageCount = 2
    /\ ObjectBegins(5, PageDictOpen)
    /\ ObjectEnds(5, PageDictResources \o Decimal(7) \o PageDictClose)
    /\ ObjectBegins(7, StreamDictOpen)
\* The highest object id of the document.
MaxObjectId == 3 + 2 * PageCount

\* Cross-reference entry k is ten decimal digits and then suffix.
XrefEntryHas(k, suffix) ==
    LET at == XrefEntryIndex(k)
    IN  /\ \A d \in 0..9 : IsDigit(DocBytes[at + d])
        /\ StartsWithAt(DocBytes, at + 10, suffix)

\* C19: the objects stand in the document in ascending id order from 1 to the
\* highest id with nothing between them; the cross-reference section has one
\* entry of ten zero-padded digits per id from 0 to the highest, entry 0 being
\* the free entry, and is followed by the trailer; the declared entry count
\* and the trailer's /Size are the highest id plus one, and the trailer names
\* /Root 1 0 R.
C19_OrderedAndPadded ==
    DocumentMade =>
        LET offset == [k \in 1..MaxObjectId |-> XrefEntryOffset(k)]
            end == [k \in 1..MaxObjectId |->
                      IF k < MaxObjectId THEN offset[k + 1] ELSE XrefIndex - 1]
        IN  /\ offset[1] = Len(PdfHeader)
            /\ \A k \in 1..MaxObjectId :
                  /\ StartsWithAt(DocBytes, offset[k] + 1, Decimal(k) \o ObjHeaderSuffix)
                  /\ offset[k] < end[k]
                  /\ StartsWithAt(DocBytes, end[k] + 1 - Len(ObjFooter), ObjFooter)
                  /\ XrefEntryHas(k, XrefEntrySuffix)
            /\ Cardinality(Occurrences(DocBytes, ObjHeaderSuffix)) = MaxObjectId
            /\ StartsWithAt(DocBytes, XrefEntryIndex(0), XrefFreeEntry)
            /\ StartsWithAt(DocBytes, XrefEntryIndex(MaxObjectId + 1), TrailerOpen)
            /\ XrefEntryCount = MaxObjectId + 1
            /\ TrailerSize = MaxObjectId + 1
            /\ StartsWithAt(DocBytes,
                            FindLast(DocBytes, TrailerOpen) + Len(TrailerOpen)
                                + Len(Decimal(TrailerSize)),
                            TrailerRoot)

\* A document of seven objects: the entry of object 1 holds 0000000009 and
\* the entry of object 7 an offset of four digits after six zeros.
C19_Witness ==
    /\ DocumentMade
    /\ MaxObjectId = 7
    /\ XrefEntryOffset(1) = 9
    /\ XrefEntryHas(7, XrefEntrySuffix)
    /\ XrefEntryOffset(7) >= 1000
    /\ \A d \in 0..5 : DocBytes[XrefEntryIndex(7) + d] = DIGIT_ZERO
    /\ TrailerSize = 8
(***************************************************************************)
(* SpecLines: createFlashcardsPdfBlob builds the flat line list of a study *)
(* set.                                                                    *)
(***************************************************************************)
InitLines ==
    /\ pc = "deck"
    /\ studySet \in StudySets
    /\ hasTextEncoder = TRUE
    /\ clock = 0
    /\ blob = <<>>
    /\ downloadStarted = FALSE
    /\ parsed = <<>>
    /\ TokenIdle /\ DedupeIdle /\ PageIdle /\ RepeatIdle /\ MergeIdle /\ TextIdle
    /\ UiIdle

\* The lines are built when the set has cards.
BuildLines ==
    /\ pc = "deck"
    /\ Len(studySet.cards) # 0
    /\ lineList' = FlatLines(studySet, LocaleString(clock))
    /\ pc' = "listed"
    /\ UNCHANGED <<uiVars, tokenVars, parsed, dedupeVars, linesPerPage, pageList, pdfVars, repeatVars,
                   mergeVars, textVars>>

NextLines == Tick \/ BuildLines

SpecLines == InitLines /\ [][NextLines]_vars

\* The positions of the blank lines of the list.
BlankLines == {i \in 1..Len(lineList) : lineList[i] = <<>>}

\* The position of the line "Card i", 0 when there is none or more than one.
CardLineAt(i) ==
    LET at == {k \in 1..Len(lineList) : lineList[k] = TextCard \o Decimal(i)}
    IN  IF Cardinality(at) = 1 THEN CHOOSE k \in at : TRUE ELSE 0

\* The position of the last line of record i: before the blank line that
\* precedes "Card i+1", or the end of the list.
RecordEndAt(i) ==
    IF i < Len(studySet.cards) THEN CardLineAt(i + 1) - 2 ELSE Len(lineList)

\* C21: the flat line list of a deck of N >= 1 records is the title line(s),
\* the generated-at line, a blank line, and for each record in deck order
\* "Card i", its "Q: " lines and its "A: " lines, with a blank line after
\* every record but the last: N blank lines, none at the end.
C21_FlatLineList ==
    pc = "listed" =>
        LET N == Len(studySet.cards)
            first == CardLineAt(1)
        IN  /\ Cardinality(BlankLines) = N
            /\ lineList[Len(lineList)] # <<>>
            /\ first >= 4
            /\ lineList[first - 1] = <<>>
            /\ \A k \in 1..(first - 2) : lineList[k] # <<>>
            /\ StartsWithAt(lineList[1], 1, TextFlashcardsFor)
            /\ StartsWithAt(lineList[first - 2], 1, TextGenerated)
            /\ \A k \in 2..(first - 3) : ~StartsWithAt(lineList[k], 1, TextGenerated)
            /\ \A i \in 1..N :
                  /\ CardLineAt(i) # 0
                  /\ i < N => lineList[CardLineAt(i + 1) - 1] = <<>>
                  /\ SubSeq(lineList, CardLineAt(i) + 1, RecordEndAt(i))
                        = wrapWithPrefix(studySet.cards[i].question, PrefixQ)
                            \o wrapWithPrefix(studySet.cards[i].answer, PrefixA)

\* Three records: three blank lines, "Card 3" after the third, and the list
\* ends with an answer line.
C21_Witness ==
    /\ pc = "listed"
    /\ Len(studySet.cards) = 3
    /\ Cardinality(BlankLines) = 3
    /\ CardLineAt(3) = Len(lineList) - 2
    /\ StartsWithAt(lineList[Len(lineList)], 1, PrefixA)
(***************************************************************************)
(* More claims about parseFlashcards, checked under SpecParse.             *)
(***************************************************************************)
\* The positions of the answer lines of the source text.
AnswerLines == {i \in 1..Len(srcLines) : srcLines[i].kind = "A"}

\* One question line, the first line, and after it at least two answer lines.
SeveralAnswerLines ==
    /\ Len(srcLines) >= 3
    /\ {i \in 1..Len(srcLines) : srcLines[i].kind = "Q"} = {1}
    /\ Cardinality(AnswerLines) >= 2

\* The question line and the lines from the last answer line on.
FromLastAnswerLine ==
    <<srcLines[1]>> \o SubSeq(srcLines, Max(AnswerLines), Len(srcLines))

\* The text of answer line first and of the lines after it up to line last,
\* each trimmed, joined by line breaks, trimmed.
AnswerFrom(first, last) ==
    Trim(Join(<<Trim(srcLines[first].text)>>
                  \o [k \in 1..(last - first) |-> Trim(LineText(srcLines[first + k]))],
              <<LF>>))

LastAnswer == AnswerFrom(Max(AnswerLines), Len(srcLines))

\* C22: of several answer lines after one question line the last replaces
\* the answer buffer: the records are those of the text without the lines
\* between the question line and the last answer line, and when no later line
\* begins with an ordinal marker the one record's answer is the text of the
\* last answer line and of the lines after it.
C22_LastAnswerLineWins ==
    (pc = "parsed" /\ SeveralAnswerLines) =>
        /\ parsed = parseFlashcards(TextOf(FromLastAnswerLine, srcSep))
        /\ (\A i \in 1..Len(srcLines) : i > 1 => ~BeginsWithOrdinal(srcLines[i])) =>
              IF LastAnswer # <<>>
              THEN parsed = <<[question |-> Trim(srcLines[1].text), answer |-> LastAnswer]>>
              ELSE parsed = <<>>

\* "Q: a", "A: x", "n", "A: Y ": the record's answer is "Y".
C22_Witness ==
    /\ pc = "parsed"
    /\ SeveralAnswerLines
    /\ Len(srcLines) = 4
    /\ srcLines[2].text = <<120>>
    /\ srcLines[3] = Line("P", <<>>, <<>>, <<110>>)
    /\ srcLines[4].text = <<89,32>>
    /\ Len(parsed) = 1
    /\ parsed[1].answer = <<89>>
\* One question line, the first line, then lines that are no question lines
\* and begin with no ordinal marker, and then the end of the text or the next
\* question line.
OneQuestionBlock ==
    /\ Len(srcLines) >= 1
    /\ srcLines[1].kind = "Q"
    /\ \A i \in 2..Len(srcLines) :
          IF srcLines[i].kind = "Q" THEN i = Len(srcLines) /\ pc = "reparsed"
          ELSE ~BeginsWithOrdinal(srcLines[i])

\* The last line of the block.
BlockEnd ==
    IF Len(srcLines) > 1 /\ srcLines[Len(srcLines)].kind = "Q" THEN Len(srcLines) - 1
    ELSE Len(srcLines)

\* The trimmed, newline-joined answer buffer at the end of the block.
BlockAnswer ==
    IF AnswerLines = {} THEN <<>> ELSE AnswerFrom(Max(AnswerLines), BlockEnd)

\* C23: every record of every text has a question and an answer that are not
\* empty and are trimmed; the pending record of a question block is committed,
\* at the next question line or at the end of the text, exactly when its
\* trimmed, newline-joined answer buffer is not empty, and its answer is that
\* buffer.
C23_RecordsNonEmptyTrimmed ==
    pc # "text" =>
        /\ \A i \in 1..Len(parsed) :
              /\ parsed[i].question # <<>>
              /\ parsed[i].answer # <<>>
              /\ Trim(parsed[i].question) = parsed[i].question
              /\ Trim(parsed[i].answer) = parsed[i].answer
        /\ OneQuestionBlock =>
              IF BlockAnswer # <<>>
              THEN parsed = <<[question |-> Trim(srcLines[1].text), answer |-> BlockAnswer]>>
              ELSE parsed = <<>>

\* "Q: a", "A:", "n" and then the next question line: the answer is "n".
C23_Witness ==
    /\ pc = "reparsed"
    /\ OneQuestionBlock
    /\ Len(srcLines) = 4
    /\ srcLines[2] = Line("A", <<>>, <<65,58>>, <<>>)
    /\ srcLines[3] = Line("P", <<>>, <<>>, <<110>>)
    /\ parsed = <<[question |-> <<97>>, answer |-> <<110>>]>>
(***************************************************************************)
(* Claims about the content streams, checked under SpecPdf.                *)
(***************************************************************************)
\* The index of the byte after the header "k 0 obj" and its line break.
ObjectBodyIndex(k) == XrefEntryOffset(k) + 1 + Len(Decimal(k) \o ObjHeaderSuffix)

\* The content stream object k declares the number of bytes that stand
\* between its "stream" line and its "endstream" keyword, the body ends with
\* a line break and holds shows text-show operations.
StreamAsDeclared(k, shows) ==
    LET dict == ObjectBodyIndex(k)
        length == NatAt(DocBytes, dict + Len(StreamDictOpen))
        body == dict + Len(StreamDictOpen) + Len(Decimal(length)) + Len(StreamOpen)
    IN  /\ StartsWithAt(DocBytes, dict, StreamDictOpen)
        /\ StartsWithAt(DocBytes, body - Len(StreamOpen), StreamOpen)
        /\ length >= 1
        /\ DocBytes[body + length - 1] = LF
        /\ StartsWithAt(DocBytes, body + length, StreamClose \o ObjFooter)
        /\ body + length + Len(StreamClose \o ObjFooter) = ObjectEnd(k) + 1
        /\ \A j \in body..(body + length - 1) : ~StartsWithAt(DocBytes, j, StreamClose)
        /\ Cardinality({j \in body..(body + length - 1) :
                           StartsWithAt(DocBytes, j, OpTj \o <<LF>>)}) = shows

\* C24: every content stream object declares as /Length the number of bytes
\* from the end of its "stream" line to its "endstream" keyword, and its body
\* has one text-show operation per line of its page.
C24_StreamLengthExact ==
    DocumentMade =>
        LET pages == Paginate(FlatLines(studySet, LocaleString(clock)), maxLinesPerPage)
        IN  \A i \in 1..Len(pages) : StreamAsDeclared(3 + Len(pages) + i, Len(pages[i]))

\* A document of two pages: the stream of the second page is object 7 and
\* shows fewer lines than the stream of the first, object 6.
C24_Witness ==
    /\ DocumentMade
    /\ PageCount = 2
    /\ \E n \in 1..(maxLinesPerPage - 1) :
          StreamAsDeclared(6, maxLinesPerPage) /\ StreamAsDeclared(7, n)
(***************************************************************************)
(* SpecSeparator: records whose texts contain the key separator "::" are   *)
(* handed to buildFlashcardsFromParsed.                                    *)
(***************************************************************************)
SeparatorItems ==
    [question : { <<97>>,                          \* "a"
                  <<65>>,                          \* "A"
                  <<97,58,58,98>> },               \* "a::b"
     answer : { <<99>>,                            \* "c"
                <<98,58,58,99>> }]                 \* "b::c"

InitSeparator ==
    /\ pc = "parsed"
    /\ parsed \in SeqsUpTo(SeparatorItems, MaxRecords)
    /\ flashcards = <<>>
    /\ rebuilt = <<>>
    /\ TokenIdle /\ PageIdle /\ PdfIdle /\ RepeatIdle /\ MergeIdle /\ TextIdle
    /\ UiIdle

NextSeparator == Build

SpecSeparator == InitSeparator /\ [][NextSeparator]_vars

\* The positions of the records that no earlier record equals up to letter
\* case and surrounding whitespace.
FirstOfPair(items) ==
    { i \in 1..Len(items) :
        /\ IsRecord(items[i])
        /\ \A j \in 1..(i - 1) :
              IsRecord(items[j]) => ~SameUpToCaseAndSpace(items[j], items[i]) }

\* C25: two records share a canonical key only if they have the same trimmed
\* lower-cased question and the same trimmed lower-cased answer, and
\* buildFlashcardsFromParsed keeps every record that no earlier record equals
\* in both.
C25_DropsOnlyDuplicates ==
    pc = "built" =>
        /\ \A i, j \in 1..Len(parsed) :
              KeyOf(parsed[i]) = KeyOf(parsed[j]) => SameUpToCaseAndSpace(parsed[i], parsed[j])
        /\ Len(flashcards) = Cardinality(FirstOfPair(parsed))
(***************************************************************************)
(* SpecSegment: a string and a width are handed to segmentSanitizedText.   *)
(***************************************************************************)
\* Strings of "a", "b" and spaces.
SegmentTexts == SeqsUpTo({SPACE, 97, 98}, MaxTextLen)

InitSegment ==
    /\ pc = "text"
    /\ textValue \in SegmentTexts
    /\ lineWidth \in 1..MaxWidth
    /\ textPrefix = <<>>
    /\ sanitizedValue = <<>>
    /\ wrappedLines = <<>>
    /\ prefixedLines = <<>>
    /\ shownLines = <<>>
    /\ parsed = <<>>
    /\ TokenIdle /\ DedupeIdle /\ PageIdle /\ PdfIdle /\ RepeatIdle /\ MergeIdle
    /\ UiIdle

Segment ==
    /\ pc = "text"
    /\ wrappedLines' = segmentSanitizedText(textValue, lineWidth)
    /\ pc' = "segmented"
    /\ UNCHANGED <<uiVars, tokenVars, parsed, dedupeVars, pageVars, pdfVars, repeatVars, mergeVars,
                   textValue, textPrefix, sanitizedValue, lineWidth, prefixedLines, shownLines>>

NextSegment == Segment

SpecSegment == InitSegment /\ [][NextSegment]_vars

\* The string without its spaces.
NoSpaces(s) == LET keep(c) == c # SPACE IN SelectSeq(s, keep)

\* The words of the string: what stands between its spaces.
WordsOf(s) == LET full(w) == w # <<>> IN SelectSeq(Split(s, SPACE), full)

\* The number of characters other than spaces in the first k of the strings.
InkIn(strings, k) == Len(NoSpaces(Flatten(SubSeq(strings, 1, k))))

\* C26: the lines of segmentSanitizedText, spaces removed and concatenated,
\* are the input with its spaces removed; no line is empty or begins or ends
\* with a space; and where a line begins with the beginning of a word, that
\* word appended to the line before it would have exceeded the width.
C26_WrapLosesNothing ==
    pc = "segmented" =>
        LET words == WordsOf(textValue)
        IN  /\ NoSpaces(Flatten(wrappedLines)) = NoSpaces(textValue)
            /\ \A k \in 1..Len(wrappedLines) :
                  /\ wrappedLines[k] # <<>>
                  /\ Head(wrappedLines[k]) # SPACE
                  /\ wrappedLines[k][Len(wrappedLines[k])] # SPACE
            /\ \A k \in 1..(Len(wrappedLines) - 1) : \A j \in 1..Len(words) :
                  InkIn(wrappedLines, k) = InkIn(words, j - 1) =>
                      Len(wrappedLines[k]) + 1 + Len(words[j]) > lineWidth

\* "ab a b" at width 3: "ab" and then "a b", the break standing before the
\* whole word "a" because "ab a" is longer than the width.
C26_Witness ==
    /\ pc = "segmented"
    /\ lineWidth = 3
    /\ textValue = <<97,98,32,97,32,98>>
    /\ wrappedLines = << <<97,98>>, <<97,32,98>> >>

(***************************************************************************)
(* The stored study sets: hydrateStoredSets, migrateLegacyCards and        *)
(* orderSets (lib/flashcards), and localStorage.                           *)
(*                                                                         *)
(* A stored string is modelled by the value JSON.parse makes of it:        *)
(* [array |-> FALSE] for text that is no JSON or no array, and             *)
(* [array |-> TRUE, items |-> ...] for an array.  An item is a record with *)
(* object = FALSE for a non-object; an optional field is <<value>>, or     *)
(* <<>> where it is missing or of another type.  importedAt is the         *)
(* millisecond value Date.parse gives.                                     *)
(***************************************************************************)

\* The ids createId hands out, by position of the item that needs one.
FreshCardIds == <<"n1", "n2", "n3">>
FreshSetIds == <<"m1", "m2", "m3">>
MigratedSetId == "m0"

\* TextImportedPdf: 'Imported PDF'
TextImportedPdf ==
    <<73,109,112,111,114,116,101,100,32,80,68,70>>

\* TextImportedFlashcards: 'Imported Flashcards'
TextImportedFlashcards ==
    <<73,109,112,111,114,116,101,100,32,70,108,97,115,104,99,97,114,100,115>>

\* orderSets: a stable sort, newest importedAt first.
InsertByDate(sorted, set) ==
    LET before == Cardinality({i \in 1..Len(sorted) : sorted[i].importedAt >= set.importedAt})
    IN  SubSeq(sorted, 1, before) \o <<set>> \o SubSeq(sorted, before + 1, Len(sorted))

RECURSIVE OrderLoop(_, _, _)
OrderLoop(list, i, sorted) ==
    IF i > Len(list) THEN sorted
    ELSE OrderLoop(list, i + 1, InsertByDate(sorted, list[i]))

orderSets(list) == OrderLoop(list, 1, <<>>)

\* The card mapping shared by hydrateStoredSets and migrateLegacyCards.
HydrateCard(card, freshId) ==
    [id |-> IF card.id # <<>> THEN card.id[1] ELSE freshId,
     question |-> Trim(card.question),
     answer |-> Trim(card.answer),
     learned |-> card.learned]

HydrateCards(rawCards) ==
    LET objects == SelectSeq(rawCards, LAMBDA card : card.object)
        mapped == [i \in 1..Len(objects) |-> HydrateCard(objects[i], FreshCardIds[i])]
    IN  SelectSeq(mapped, LAMBDA card : card.question # <<>> /\ card.answer # <<>>)

\* One item of the stored array: <<set>>, or <<>> for null.
HydrateSet(item, freshId, now) ==
    IF ~item.object THEN <<>>
    ELSE LET cards == HydrateCards(item.cards)
         IN  IF Len(cards) = 0 THEN <<>>
             ELSE << [id |-> IF item.id # <<>> THEN item.id[1] ELSE freshId,
                      name |-> IF item.name # <<>> /\ Trim(item.name[1]) # <<>>
                               THEN Trim(item.name[1]) ELSE TextImportedPdf,
                      importedAt |-> IF item.importedAt # <<>> THEN item.importedAt[1] ELSE now,
                      cards |-> cards] >>

hydrateStoredSets(value, now) ==
    IF value = <<>> THEN <<>>
    ELSE IF ~value[1].array THEN <<>>
    ELSE LET items == value[1].items
         IN  orderSets(Flatten([i \in 1..Len(items) |->
                                   HydrateSet(items[i], FreshSetIds[i], now)]))

migrateLegacyCards(value, now) ==
    IF value = <<>> THEN <<>>
    ELSE IF ~value[1].array THEN <<>>
    ELSE LET cards == HydrateCards(value[1].items)
         IN  IF Len(cards) = 0 THEN <<>>
             ELSE << [id |-> MigratedSetId, name |-> TextImportedFlashcards,
                      importedAt |-> now, cards |-> cards] >>

\* JSON.stringify of the sets, as the value JSON.parse makes of it again.
StringifyCard(card) ==
    [object |-> TRUE, id |-> <<card.id>>, question |-> card.question,
     answer |-> card.answer, learned |-> card.learned]

StringifySet(set) ==
    [object |-> TRUE, id |-> <<set.id>>, name |-> <<set.name>>,
     importedAt |-> <<set.importedAt>>,
     cards |-> [j \in 1..Len(set.cards) |-> StringifyCard(set.cards[j])]]

Stringify(list) ==
    << [array |-> TRUE, items |-> [i \in 1..Len(list) |-> StringifySet(list[i])]] >>

\* One localStorage call: done is FALSE where setItem threw.
StorageCall(by, call, key, done) == [by |-> by, call |-> call, key |-> key, done |-> done]

(***************************************************************************)
(* useFlashcardSets (hooks/useFlashcardSets.ts).  A step of the model is   *)
(* an event handler with the render that follows it, or a commit: the      *)
(* effects whose dependencies changed, run in the order they are declared  *)
(* with the values of the render they belong to, with their state updates  *)
(* applied in order.  React flushes the effects of a render before it      *)
(* handles the next event.                                                 *)
(***************************************************************************)

\* useMemo selectedSet: <<set>>, or <<>> for null.
SelectedSetOf(list, setId) ==
    IF Len(list) = 0 THEN <<>>
    ELSE IF setId = <<>> THEN <<list[1]>>
    ELSE LET found == {i \in 1..Len(list) : list[i].id = setId[1]}
         IN  IF found = {} THEN <<list[1]>> ELSE <<list[Min(found)]>>

selectedSet == SelectedSetOf(sets, selectedSetId)

totalCards == IF selectedSet = <<>> THEN 0 ELSE Len(selectedSet[1].cards)

\* useMemo currentCard: <<card>>, or <<>> for null.
currentCard ==
    IF selectedSet = <<>> \/ totalCards = 0 THEN <<>>
    ELSE <<selectedSet[1].cards[Min({currentCardIndex, totalCards - 1}) + 1]>>

\* The dependency values of the render: [sets, initialLoadComplete],
\* [selectedSetId] and [totalCards].
Deps ==
    [sets |-> sets, initialLoadComplete |-> initialLoadComplete,
     selectedSetId |-> selectedSetId, totalCards |-> totalCards]

EffectsFlushed == effectDeps = <<Deps>>

\* The load effect with removeItem after the try block instead of inside it.
LoadEffectRemovesAfterTry(store, writeDone, now) ==
    LET storedSets == hydrateStoredSets(store[STORAGE_KEY], now)
        migrated == migrateLegacyCards(store[LEGACY_STORAGE_KEY], now)
        nextSets == orderSets(migrated)
        getSets == StorageCall("load", "getItem", STORAGE_KEY, TRUE)
        getCards == StorageCall("load", "getItem", LEGACY_STORAGE_KEY, TRUE)
    IN  IF Len(storedSets) # 0
        THEN [nextSets |-> storedSets, storage |-> store, calls |-> <<getSets>>]
        ELSE IF Len(migrated) = 0
        THEN [nextSets |-> storedSets, storage |-> store, calls |-> <<getSets, getCards>>]
        ELSE [nextSets |-> nextSets,
              storage |-> [store EXCEPT ![STORAGE_KEY] = IF writeDone THEN Stringify(nextSets)
                                                          ELSE store[STORAGE_KEY],
                                        ![LEGACY_STORAGE_KEY] = <<>>],
              calls |-> <<getSets, getCards,
                          StorageCall("load", "setItem", STORAGE_KEY, writeDone),
                          StorageCall("load", "removeItem", LEGACY_STORAGE_KEY, TRUE)>>]

\* The load effect: the sets it loads, the storage it leaves, its calls.
LoadEffect(store, writeDone, now) ==
    LET storedSets == hydrateStoredSets(store[STORAGE_KEY], now)
        migrated == migrateLegacyCards(store[LEGACY_STORAGE_KEY], now)
        nextSets == orderSets(migrated)
        getSets == StorageCall("load", "getItem", STORAGE_KEY, TRUE)
        getCards == StorageCall("load", "getItem", LEGACY_STORAGE_KEY, TRUE)
    IN  IF Len(storedSets) # 0
        THEN [nextSets |-> storedSets, storage |-> store, calls |-> <<getSets>>]
        ELSE IF Len(migrated) = 0
        THEN [nextSets |-> storedSets, storage |-> store, calls |-> <<getSets, getCards>>]
        ELSE IF writeDone
        THEN [nextSets |-> nextSets,
              storage |-> [store EXCEPT ![STORAGE_KEY] = Stringify(nextSets),
                                        ![LEGACY_STORAGE_KEY] = <<>>],
              calls |-> <<getSets, getCards,
                          StorageCall("load", "setItem", STORAGE_KEY, TRUE),
                          StorageCall("load", "removeItem", LEGACY_STORAGE_KEY, TRUE)>>]
        ELSE [nextSets |-> nextSets, storage |-> store,
              calls |-> <<getSets, getCards,
                          StorageCall("load", "setItem", STORAGE_KEY, FALSE)>>]

\* The persistence effect without its initialLoadComplete test.
PersistEffectUnguarded(store, loadComplete, list, writeDone) ==
    IF writeDone
    THEN [storage |-> [store EXCEPT ![STORAGE_KEY] = Stringify(list)],
          calls |-> <<StorageCall("persist", "setItem", STORAGE_KEY, TRUE)>>]
    ELSE [storage |-> store,
          calls |-> <<StorageCall("persist", "setItem", STORAGE_KEY, FALSE)>>]

\* The persistence effect, with the values of the render it belongs to.
PersistEffect(store, loadComplete, list, writeDone) ==
    IF ~loadComplete THEN [storage |-> store, calls |-> <<>>]
    ELSE IF writeDone
    THEN [storage |-> [store EXCEPT ![STORAGE_KEY] = Stringify(list)],
          calls |-> <<StorageCall("persist", "setItem", STORAGE_KEY, TRUE)>>]
    ELSE [storage |-> store,
          calls |-> <<StorageCall("persist", "setItem", STORAGE_KEY, FALSE)>>]

\* The effect on [totalCards]: its updater of currentCardIndex.
ClampIndex(prev, total) ==
    IF total = 0 THEN 0 ELSE Min({prev, total - 1})

\* The first commit: every effect runs, with the values of the first render.
Mount ==
    /\ effectDeps = <<>>
    /\ \E loadWrite \in BOOLEAN, persistWrite \in BOOLEAN :
         LET loaded == LoadEffect(storage, loadWrite, clock)
             persisted == PersistEffect(loaded.storage, initialLoadComplete, sets, persistWrite)
         IN  /\ sets' = loaded.nextSets
             /\ selectedSetId' = IF Len(loaded.nextSets) = 0 THEN <<>>
                                 ELSE <<loaded.nextSets[1].id>>
             /\ initialLoadComplete' = TRUE
             /\ currentCardIndex' = ClampIndex(0, totalCards)
             /\ storage' = persisted.storage
             /\ storageOps' = loaded.calls \o persisted.calls
    /\ effectDeps' = <<Deps>>
    /\ UNCHANGED <<pc, tokenVars, parsed, dedupeVars, pageVars, pdfVars, repeatVars, mergeVars,
                   textVars, homeVars>>

\* A later commit: the effects whose dependencies changed.
FlushEffects ==
    /\ effectDeps # <<>>
    /\ ~EffectsFlushed
    /\ \E persistWrite \in BOOLEAN :
         LET last == effectDeps[1]
             persists == last.sets # sets \/ last.initialLoadComplete # initialLoadComplete
             persisted == IF persists
                          THEN PersistEffect(storage, initialLoadComplete, sets, persistWrite)
                          ELSE [storage |-> storage, calls |-> <<>>]
             reset == IF last.selectedSetId # selectedSetId THEN 0 ELSE currentCardIndex
             clamped == IF last.totalCards # totalCards THEN ClampIndex(reset, totalCards)
                        ELSE reset
         IN  /\ currentCardIndex' = clamped
             /\ storage' = persisted.storage
             /\ storageOps' = persisted.calls
    /\ effectDeps' = <<Deps>>
    /\ UNCHANGED <<pc, tokenVars, parsed, dedupeVars, pageVars, pdfVars, repeatVars, mergeVars,
                   textVars, homeVars, sets, selectedSetId, initialLoadComplete>>

\* The state updates of the six callbacks.
AddSetUpdate(set) ==
    /\ sets' = orderSets(<<set>> \o sets)
    /\ selectedSetId' = <<set.id>>
    /\ currentCardIndex' = 0

ClearSelectedSetUpdate ==
    IF selectedSet = <<>>
    THEN UNCHANGED <<sets, selectedSetId, currentCardIndex>>
    ELSE LET filtered == SelectSeq(sets, LAMBDA set : set.id # selectedSet[1].id)
         IN  /\ sets' = filtered
             /\ selectedSetId' = IF Len(filtered) = 0 THEN <<>> ELSE <<filtered[1].id>>
             /\ currentCardIndex' = 0

ToggleLearned(list, targetSetId, cardId) ==
    [i \in 1..Len(list) |->
        IF list[i].id = targetSetId
        THEN [list[i] EXCEPT !.cards =
                 [j \in 1..Len(list[i].cards) |->
                     IF list[i].cards[j].id = cardId
                     THEN [list[i].cards[j] EXCEPT !.learned = ~list[i].cards[j].learned]
                     ELSE list[i].cards[j]]]
        ELSE list[i]]

PreviousIndex(prev) == IF prev <= 0 THEN 0 ELSE prev - 1

NextIndexUnbounded(prev, total) == prev + 1

NextIndex(prev, total) ==
    IF total = 0 THEN 0
    ELSE IF prev >= total - 1 THEN total - 1 ELSE prev + 1

\* Bounds and inputs of the hook.
MaxSets == 2

HookCard(id, learned) ==
    [id |-> id, question |-> <<113>>, answer |-> <<97>>, learned |-> learned]

\* "notes.pdf"
FileName == <<110,111,116,101,115,46,112,100,102>>

NewSets ==
    { [id |-> "s0", name |-> FileName, importedAt |-> 3, cards |-> <<>>],
      [id |-> "s1", name |-> FileName, importedAt |-> 2,
       cards |-> <<HookCard("c1", FALSE)>>],
      [id |-> "s3", name |-> FileName, importedAt |-> 4,
       cards |-> <<HookCard("c1", FALSE), HookCard("c2", FALSE), HookCard("c3", FALSE)>>] }

\* The ids a caller may select: those of the sets shown, and one that is gone.
SetIds == {sets[i].id : i \in 1..Len(sets)} \cup {"gone"}
CardIds == {"c1", "gone"}

\* What the browser may hold when the page opens.
StoredCard(id, question) ==
    [object |-> TRUE, id |-> id, question |-> question, answer |-> <<97>>, learned |-> TRUE]

StoredSet(id, importedAt, cards) ==
    [object |-> TRUE, id |-> id, name |-> <<>>, importedAt |-> importedAt, cards |-> cards]

NotAnObject ==
    [object |-> FALSE, id |-> <<>>, question |-> <<>>, answer |-> <<>>, learned |-> FALSE]

StoredSetsValues ==
    { <<>>,
      << [array |-> FALSE, items |-> <<>>] >>,
      << [array |-> TRUE,
          items |-> << StoredSet(<<>>, <<>>, <<StoredCard(<<>>, <<32>>)>>) >>] >>,
      << [array |-> TRUE,
          items |-> << StoredSet(<<"s1">>, <<1>>, <<StoredCard(<<"c1">>, <<113>>)>>),
                       StoredSet(<<>>, <<5>>, <<StoredCard(<<>>, <<113, 32>>),
                                                 StoredCard(<<"c3">>, <<113>>)>>) >>] >> }

StoredCardsValues ==
    { <<>>,
      << [array |-> TRUE, items |-> << NotAnObject, StoredCard(<<>>, <<32>>) >>] >>,
      << [array |-> TRUE,
          items |-> << StoredCard(<<"c1">>, <<113>>), StoredCard(<<>>, <<32, 113>>) >>] >> }

InitHook ==
    /\ pc = "page"
    /\ sets = <<>>
    /\ selectedSetId = <<>>
    /\ currentCardIndex = 0
    /\ initialLoadComplete = FALSE
    /\ effectDeps = <<>>
    /\ storage \in [{STORAGE_KEY, LEGACY_STORAGE_KEY} -> StoredSetsValues \cup StoredCardsValues]
    /\ storage[STORAGE_KEY] \in StoredSetsValues
    /\ storage[LEGACY_STORAGE_KEY] \in StoredCardsValues
    /\ storageOps = <<>>
    /\ file = <<>>
    /\ loading = FALSE
    /\ request = <<>>
    /\ error = <<>>
    /\ statusMessage = <<>>
    /\ parsed = <<>>
    /\ TokenIdle /\ DedupeIdle /\ PageIdle /\ PdfIdle /\ RepeatIdle /\ MergeIdle /\ TextIdle

HookUnchanged ==
    UNCHANGED <<pc, tokenVars, parsed, dedupeVars, pageVars, pdfVars, repeatVars, mergeVars,
                textVars, homeVars, storageVars, initialLoadComplete, effectDeps>>

AddSet ==
    /\ EffectsFlushed
    /\ Len(sets) < MaxSets
    /\ \E set \in NewSets : AddSetUpdate(set)
    /\ HookUnchanged

SelectSet ==
    /\ EffectsFlushed
    /\ \E setId \in SetIds : selectedSetId' = <<setId>>
    /\ UNCHANGED <<sets, currentCardIndex>>
    /\ HookUnchanged

ClearSelectedSet ==
    /\ EffectsFlushed
    /\ ClearSelectedSetUpdate
    /\ HookUnchanged

ToggleCardLearned ==
    /\ EffectsFlushed
    /\ \E cardId \in CardIds :
         sets' = IF selectedSet = <<>> THEN sets
                 ELSE ToggleLearned(sets, selectedSet[1].id, cardId)
    /\ UNCHANGED <<selectedSetId, currentCardIndex>>
    /\ HookUnchanged

GoToPreviousCard ==
    /\ EffectsFlushed
    /\ currentCardIndex' = PreviousIndex(currentCardIndex)
    /\ UNCHANGED <<sets, selectedSetId>>
    /\ HookUnchanged

GoToNextCard ==
    /\ EffectsFlushed
    /\ currentCardIndex' = NextIndex(currentCardIndex, totalCards)
    /\ UNCHANGED <<sets, selectedSetId>>
    /\ HookUnchanged

NextHook ==
    \/ Mount
    \/ FlushEffects
    \/ AddSet
    \/ SelectSet
    \/ ClearSelectedSet
    \/ ToggleCardLearned
    \/ GoToPreviousCard
    \/ GoToNextCard

SpecHook == InitHook /\ [][NextHook]_vars

\* C27: once the pending effects have run, currentCardIndex lies between 0
\* and max(0, totalCards - 1) for the selected set; and in every state, also
\* before the effects have run, currentCard is a card of the selected set when
\* that set has a card, and null otherwise.
C27_IndexAndCardInRange ==
    /\ EffectsFlushed =>
         /\ 0 <= currentCardIndex
         /\ currentCardIndex <= Max({0, totalCards - 1})
    /\ IF selectedSet # <<>> /\ Len(selectedSet[1].cards) >= 1
       THEN /\ currentCard # <<>>
            /\ \E j \in 1..Len(selectedSet[1].cards) : currentCard[1] = selectedSet[1].cards[j]
       ELSE currentCard = <<>>

\* C27 happens: a shorter set was selected while the index pointed past its
\* end, and the effects have not run yet.
C27_Witness ==
    /\ ~EffectsFlushed
    /\ effectDeps # <<>>
    /\ totalCards >= 1
    /\ currentCardIndex > totalCards - 1
    /\ currentCard = <<selectedSet[1].cards[totalCards]>>

CallsBy(by) == {i \in 1..Len(storageOps) : storageOps[i].by = by}

\* C28: while the initial load has not completed, the persistence effect makes
\* no localStorage call, and the entry under STORAGE_KEY is either left as it
\* was or receives the non-empty migrated list the load effect loads: never the
\* initial empty list.
C28_NoWriteBeforeLoad ==
    [][~initialLoadComplete =>
         /\ \A i \in 1..Len(storageOps') : storageOps'[i].by # "persist"
         /\ \/ storage'[STORAGE_KEY] = storage[STORAGE_KEY]
            \/ /\ sets' # <<>>
               /\ storage'[STORAGE_KEY] = Stringify(sets')]_vars

\* C28 happens: sets were stored, the first commit has run the persistence
\* effect with initialLoadComplete false, and the stored sets are loaded and
\* still stored.
C28_Witness ==
    /\ effectDeps # <<>>
    /\ ~effectDeps[1].initialLoadComplete
    /\ effectDeps[1].sets = <<>>
    /\ initialLoadComplete
    /\ sets # <<>>
    /\ CallsBy("persist") = {}
    /\ hydrateStoredSets(storage[STORAGE_KEY], clock) = sets

\* The positions in a call list of the calls of one kind on one key.
CallsOf(calls, call, key) ==
    {i \in 1..Len(calls) : calls[i].call = call /\ calls[i].key = key}

\* C29: the legacy entry is read only by the load effect and only when no valid
\* set is stored under STORAGE_KEY; it is removed only after a setItem of the
\* migrated set under STORAGE_KEY that did not throw, and the migrated set is
\* then what is stored; where that setItem throws, the legacy entry stays and
\* the migrated set is loaded all the same.  No later step touches the entry.
C29_MigrationKeepsCards ==
    [][LET calls == storageOps'
           storedSets == hydrateStoredSets(storage[STORAGE_KEY], clock)
           migrated == migrateLegacyCards(storage[LEGACY_STORAGE_KEY], clock)
           reads == CallsOf(calls, "getItem", LEGACY_STORAGE_KEY)
           writes == CallsOf(calls, "setItem", STORAGE_KEY)
           removes == CallsOf(calls, "removeItem", LEGACY_STORAGE_KEY)
       IN  IF effectDeps = <<>>
           THEN /\ reads # {} => storedSets = <<>>
                /\ \A r \in removes : \E w \in writes : w < r /\ calls[w].done
                /\ removes # {} <=> storage'[LEGACY_STORAGE_KEY] # storage[LEGACY_STORAGE_KEY]
                /\ removes # {} =>
                     /\ hydrateStoredSets(storage'[STORAGE_KEY], clock) = orderSets(migrated)
                     /\ sets' = orderSets(migrated)
                /\ (\E w \in writes : ~calls[w].done) =>
                     /\ storage'[LEGACY_STORAGE_KEY] = storage[LEGACY_STORAGE_KEY]
                     /\ migrated # <<>>
                     /\ sets' = orderSets(migrated)
           ELSE /\ storage'[LEGACY_STORAGE_KEY] = storage[LEGACY_STORAGE_KEY]
                /\ \A i \in 1..Len(calls) :
                     calls[i].key = LEGACY_STORAGE_KEY => storageOps = calls]_vars

\* C29 happens: legacy cards were migrated, the setItem of the migrated set
\* threw, the legacy entry is still there and the migrated set is loaded.
C29_Witness ==
    /\ initialLoadComplete
    /\ \E w \in CallsOf(storageOps, "setItem", STORAGE_KEY) :
         storageOps[w].by = "load" /\ ~storageOps[w].done
    /\ storage[LEGACY_STORAGE_KEY] # <<>>
    /\ Len(sets) = 1
    /\ sets[1].id = MigratedSetId
    /\ sets = orderSets(migrateLegacyCards(storage[LEGACY_STORAGE_KEY], clock))

(***************************************************************************)
(* The Home page (app/page.tsx) with its FlashcardUploader: the feedback   *)
(* messages.  A message is a string; the empty string shows nothing.       *)
(***************************************************************************)

\* 'Please select a file first.'
TextSelectFileFirst ==
    <<80,108,101,97,115,101,32,115,101,108,101,99,116,32,97,32,102,105,108,101,32,102,105,114,115,116,46>>

\* 'Please choose a PDF or TXT file.'
TextChoosePdfOrTxt ==
    <<80,108,101,97,115,101,32,99,104,111,111,115,101,32,97,32,80,68,70,32,111,114,32,84,88,84,32,102,105,108,101,46>>

\* 'The AI response did not contain any flashcards.'
TextNoFlashcardsInResponse ==
    <<84,104,101,32,65,73,32,114,101,115,112,111,110,115,101,32,100,105,100,32,110,111,116,32,99,111,110,116,97,105,110,32,97,110,121,32,102,108,97,115,104,99,97,114,100,115,46>>

\* 'Could not parse any Q/A pairs from the AI response.'
TextCouldNotParse ==
    <<67,111,117,108,100,32,110,111,116,32,112,97,114,115,101,32,97,110,121,32,81,47,65,32,112,97,105,114,115,32,102,114,111,109,32,116,104,101,32,65,73,32,114,101,115,112,111,110,115,101,46>>

\* 'No new flashcards were generated from this file.'
TextNoNewFlashcards ==
    <<78,111,32,110,101,119,32,102,108,97,115,104,99,97,114,100,115,32,119,101,114,101,32,103,101,110,101,114,97,116,101,100,32,102,114,111,109,32,116,104,105,115,32,102,105,108,101,46>>

\* 'Failed to connect to backend. Make sure FastAPI is running.'
TextBackendFailed ==
    <<70,97,105,108,101,100,32,116,111,32,99,111,110,110,101,99,116,32,116,111,32,98,97,99,107,101,110,100,46,32,77,97,107,101,32,115,117,114,101,32,70,97,115,116,65,80,73,32,105,115,32,114,117,110,110,105,110,103,46>>

\* 'Added '
TextAdded ==
    <<65,100,100,101,100,32>>

\* ' flashcards from "'
TextFlashcardsFrom ==
    <<32,102,108,97,115,104,99,97,114,100,115,32,102,114,111,109,32,34>>

\* 'Cleared flashcards from "'
TextClearedFrom ==
    <<67,108,101,97,114,101,100,32,102,108,97,115,104,99,97,114,100,115,32,102,114,111,109,32,34>>

\* '".'
TextQuoteEnd ==
    <<34,46>>

\* 'application/pdf'
MimePdf ==
    <<97,112,112,108,105,99,97,116,105,111,110,47,112,100,102>>

\* 'text/plain'
MimeText ==
    <<116,101,120,116,47,112,108,97,105,110>>

\* 'image/png'
MimePng ==
    <<105,109,97,103,101,47,112,110,103>>

\* '.pdf'
ExtPdf ==
    <<46,112,100,102>>

\* '.txt'
ExtTxt ==
    <<46,116,120,116>>

\* 'Notes.PDF'
NameNotesPdf ==
    <<78,111,116,101,115,46,80,68,70>>

\* 'list.txt'
NameListTxt ==
    <<108,105,115,116,46,116,120,116>>

\* 'picture.png'
NamePicturePng ==
    <<112,105,99,116,117,114,101,46,112,110,103>>

\* 'Unsupported file'
TextBackendError ==
    <<85,110,115,117,112,112,111,114,116,101,100,32,102,105,108,101>>

\* 'No cards here.'
TextProse ==
    <<78,111,32,99,97,114,100,115,32,104,101,114,101,46>>

\* 'Q: a\nA: b'
TextOneCard ==
    <<81,58,32,97,10,65,58,32,98>>

\* /\.pdf$/i.test(name), /\.txt$/i.test(name)
EndsWithIgnoringCase(name, extension) ==
    /\ Len(name) >= Len(extension)
    /\ ToLowerCase(SubSeq(name, Len(name) - Len(extension) + 1, Len(name))) = extension

isPdf(selected) == selected.type = MimePdf \/ EndsWithIgnoringCase(selected.name, ExtPdf)
isText(selected) == selected.type = MimeText \/ EndsWithIgnoringCase(selected.name, ExtTxt)

\* The files a user may pick or drop.
Files ==
    { [name |-> NameNotesPdf, type |-> <<>>],
      [name |-> NameListTxt, type |-> MimeText],
      [name |-> NamePicturePng, type |-> MimePng] }

\* What the awaited axios.post may end in: a rejection, or a response whose
\* data has an error (<<text>>) or flashcards (<<text>> where it is a string).
Responses ==
    { [rejected |-> TRUE, error |-> <<>>, flashcards |-> <<>>],
      [rejected |-> FALSE, error |-> <<TextBackendError>>, flashcards |-> <<>>],
      [rejected |-> FALSE, error |-> <<>>, flashcards |-> <<>>],
      [rejected |-> FALSE, error |-> << <<>> >>, flashcards |-> << <<SPACE, LF>> >>],
      [rejected |-> FALSE, error |-> <<>>, flashcards |-> <<TextProse>>],
      [rejected |-> FALSE, error |-> <<>>, flashcards |-> <<TextOneCard>>] }

\* The ids createId may give a generated set.
GeneratedSetIds == {"g1", "g2"}

\* handleGenerate after the await: the error it sets, or the set it adds.
GenerateOutcome(response, name, setId, now) ==
    LET aiOutput == IF response.flashcards # <<>> THEN response.flashcards[1] ELSE <<>>
        parsedCards == parseFlashcards(aiOutput)
        newCards == buildFlashcardsFromParsed(parsedCards, FreshCardIds)
    IN  IF response.rejected THEN [error |-> <<TextBackendFailed>>, newSet |-> <<>>]
        ELSE IF response.error # <<>> /\ response.error[1] # <<>>
        THEN [error |-> <<response.error[1]>>, newSet |-> <<>>]
        ELSE IF Trim(aiOutput) = <<>>
        THEN [error |-> <<TextNoFlashcardsInResponse>>, newSet |-> <<>>]
        ELSE IF Len(parsedCards) = 0 THEN [error |-> <<TextCouldNotParse>>, newSet |-> <<>>]
        ELSE IF Len(newCards) = 0 THEN [error |-> <<TextNoNewFlashcards>>, newSet |-> <<>>]
        ELSE [error |-> <<>>,
              newSet |-> << [id |-> setId, name |-> name, importedAt |-> now,
                             cards |-> newCards] >>]

AddedMessage(count, name) ==
    TextAdded \o Decimal(count) \o TextFlashcardsFrom \o name \o TextQuoteEnd

ClearedMessage(name) == TextClearedFrom \o name \o TextQuoteEnd

HomeUnchanged ==
    UNCHANGED <<pc, tokenVars, parsed, dedupeVars, pageVars, pdfVars, repeatVars, mergeVars,
                textVars, storageVars, initialLoadComplete, effectDeps>>

\* applySelectedFile, from handleFileChange or handleDrop.
ApplySelectedFile ==
    /\ EffectsFlushed
    /\ \E selected \in {<<>>} \cup {<<f>> : f \in Files} :
         /\ statusMessage' = <<>>
         /\ IF selected = <<>>
            THEN file' = <<>> /\ error' = <<>>
            ELSE IF ~isPdf(selected[1]) /\ ~isText(selected[1])
            THEN file' = <<>> /\ error' = TextChoosePdfOrTxt
            ELSE file' = selected /\ error' = <<>>
    /\ UNCHANGED <<hookVars, storageVars, loading, request>>
    /\ UNCHANGED <<pc, tokenVars, parsed, dedupeVars, pageVars, pdfVars, repeatVars, mergeVars,
                   textVars>>

\* handleGenerateClick, up to the await of handleGenerate.  The button is
\* disabled while loading.
HandleGenerateClick ==
    /\ EffectsFlushed
    /\ ~loading
    /\ Len(sets) < MaxSets
    /\ IF file = <<>>
       THEN /\ error' = TextSelectFileFirst
            /\ UNCHANGED <<loading, request, statusMessage>>
       ELSE /\ loading' = TRUE
            /\ request' = file
            /\ error' = <<>>
            /\ statusMessage' = <<>>
    /\ UNCHANGED <<hookVars, storageVars, file>>
    /\ UNCHANGED <<pc, tokenVars, parsed, dedupeVars, pageVars, pdfVars, repeatVars, mergeVars,
                   textVars>>

\* handleGenerate from the await on.
HandleGenerateSettles ==
    /\ EffectsFlushed
    /\ loading
    /\ \E response \in Responses, setId \in GeneratedSetIds :
         /\ \A i \in 1..Len(sets) : sets[i].id # setId
         /\ LET outcome == GenerateOutcome(response, request[1].name, setId, clock)
            IN  IF outcome.newSet = <<>>
                THEN /\ error' = outcome.error[1]
                     /\ UNCHANGED <<statusMessage, sets, selectedSetId, currentCardIndex>>
                ELSE /\ AddSetUpdate(outcome.newSet[1])
                     /\ statusMessage' = AddedMessage(Len(outcome.newSet[1].cards),
                                                      request[1].name)
                     /\ UNCHANGED error
    /\ loading' = FALSE
    /\ request' = <<>>
    /\ UNCHANGED file
    /\ HomeUnchanged

HandleClearSelected ==
    /\ EffectsFlushed
    /\ ClearSelectedSetUpdate
    /\ IF selectedSet = <<>>
       THEN UNCHANGED <<error, statusMessage>>
       ELSE /\ statusMessage' = ClearedMessage(selectedSet[1].name)
            /\ error' = <<>>
    /\ UNCHANGED <<file, loading, request>>
    /\ HomeUnchanged

\* handleSelectSet, from a set of the imports list.
HandleSelectSet ==
    /\ EffectsFlushed
    /\ \E i \in 1..Len(sets) : selectedSetId' = <<sets[i].id>>
    /\ statusMessage' = <<>>
    /\ error' = <<>>
    /\ UNCHANGED <<sets, currentCardIndex, file, loading, request>>
    /\ HomeUnchanged

NextHome ==
    \/ Mount
    \/ FlushEffects
    \/ ApplySelectedFile
    \/ HandleGenerateClick
    \/ HandleGenerateSettles
    \/ HandleClearSelected
    \/ HandleSelectSet

SpecHome == InitHook /\ [][NextHome]_vars

\* C30: on the Home page the error message and the status message are never
\* both non-empty.
C30_OneFeedbackMessage ==
    ~(error # <<>> /\ statusMessage # <<>>)

====
